---- MODULE Spec2Model ----
(***************************************************************************)
(* Verification model of valid-tools: the timestamp-token service          *)
(* (app/services/tsa_service.py), the calendar-proof service               *)
(* (app/services/ots_service.py) and the part of the evidence service      *)
(* (app/services/evidence_service.py) that drives them.                    *)
(*                                                                         *)
(* Byte strings are sequences of numbers 0..255.  Error texts are          *)
(* sequences of text segments (<<>> is "no error", Python's None), so that *)
(* "the error begins with X" is a test of the first segment.               *)
(***************************************************************************)
EXTENDS Integers, Sequences, FiniteSets, TLC

(***************************************************************************)
(* Bounds of the model.                                                    *)
(***************************************************************************)
\* Longest message imprint (digest) of a token, in bytes.
MaxImprint == 2

\* Longest calendar list given to the aggregation.
MaxCalendars == 3

(***************************************************************************)
(* Bytes and text: the Python bytes methods tsa_service.py uses.           *)
(***************************************************************************)
NoError == <<>>

\* bytes.decode("ascii") succeeds
IsAscii(b) == \A i \in 1..Len(b) : b[i] < 128

\* the ASCII whitespace bytes.strip() removes: \t \n \v \f \r and space
Whitespace == {9, 10, 11, 12, 13, 32}

RECURSIVE LStrip(_)
LStrip(b) == IF b # <<>> /\ b[1] \in Whitespace THEN LStrip(Tail(b)) ELSE b

RECURSIVE RStrip(_)
RStrip(b) ==
    IF b # <<>> /\ b[Len(b)] \in Whitespace
    THEN RStrip(SubSeq(b, 1, Len(b) - 1))
    ELSE b

\* bytes.strip()
Strip(b) == RStrip(LStrip(b))

\* bytes.startswith(p)
StartsWith(b, p) == Len(b) >= Len(p) /\ SubSeq(b, 1, Len(p)) = p

\* bytes.splitlines(): breaks at \n, \r and \r\n; no empty last line
RECURSIVE SplitFrom(_, _, _, _)
SplitFrom(b, i, cur, lines) ==
    IF i > Len(b)
    THEN (IF cur # <<>> THEN Append(lines, cur) ELSE lines)
    ELSE IF b[i] = 13 /\ i < Len(b) /\ b[i + 1] = 10
    THEN SplitFrom(b, i + 2, <<>>, Append(lines, cur))
    ELSE IF b[i] \in {10, 13}
    THEN SplitFrom(b, i + 1, <<>>, Append(lines, cur))
    ELSE SplitFrom(b, i + 1, Append(cur, b[i]), lines)

SplitLines(b) == SplitFrom(b, 1, <<>>, <<>>)

\* b"".join(lines)
RECURSIVE Join(_)
Join(lines) == IF lines = <<>> THEN <<>> ELSE Head(lines) \o Join(Tail(lines))

\* b"-----BEGIN"
PemBegin == <<45, 45, 45, 45, 45, 66, 69, 71, 73, 78>>

\* b"-----"
PemDashes == <<45, 45, 45, 45, 45>>

\* b"-----END"
PemEnd == <<45, 45, 45, 45, 45, 69, 78, 68>>

\* b"".join(line for line in parts if not line.startswith(b"-----"))
PemBody(text) ==
    Join(SelectSeq(SplitLines(text), LAMBDA line : ~StartsWith(line, PemDashes)))

\* text.replace(b"\n", b"").replace(b"\r", b"")
RemoveLineBreaks(text) == SelectSeq(text, LAMBDA c : c \notin {10, 13})

\* The 64 characters of the base64 alphabet, in value order: A-Z a-z 0-9 + /
B64Chars ==
    <<65, 66, 67, 68, 69, 70, 71, 72, 73, 74, 75, 76, 77,
      78, 79, 80, 81, 82, 83, 84, 85, 86, 87, 88, 89, 90,
      97, 98, 99, 100, 101, 102, 103, 104, 105, 106, 107, 108, 109,
      110, 111, 112, 113, 114, 115, 116, 117, 118, 119, 120, 121, 122,
      48, 49, 50, 51, 52, 53, 54, 55, 56, 57, 43, 47>>

\* "="
PadChar == 61

\* allowed = b"ABC...xyz0123456789+/="
Allowed == {B64Chars[i] : i \in 1..64} \cup {PadChar}

IsB64Char(c) == \E i \in 1..64 : B64Chars[i] = c

\* the 6-bit value of an alphabet character
B64Val(c) == (CHOOSE i \in 1..64 : B64Chars[i] = c) - 1

(***************************************************************************)
(* base64.b64decode, as CPython 3.11's binascii.a2b_base64 computes it.    *)
(* st: qp (position in the quad), left (bits carried), pads, started       *)
(* (a pad was seen), out.  strict is validate=True.  The result is         *)
(* [ok, val].                                                              *)
(***************************************************************************)
B64Fail == [ok |-> FALSE, val |-> <<>>]

B64Ok(out) == [ok |-> TRUE, val |-> out]

B64Push(st, v) ==
    IF st.qp = 0
    THEN [st EXCEPT !.qp = 1, !.left = v, !.pads = 0]
    ELSE IF st.qp = 1
    THEN [st EXCEPT !.qp = 2, !.left = v % 16, !.pads = 0,
                    !.out = Append(st.out, st.left * 4 + (v \div 16))]
    ELSE IF st.qp = 2
    THEN [st EXCEPT !.qp = 3, !.left = v % 4, !.pads = 0,
                    !.out = Append(st.out, st.left * 16 + (v \div 4))]
    ELSE [st EXCEPT !.qp = 0, !.left = 0, !.pads = 0,
                    !.out = Append(st.out, st.left * 64 + v)]

RECURSIVE A2bFrom(_, _, _, _)
A2bFrom(s, i, st, strict) ==
    IF i > Len(s)
    THEN (IF st.qp # 0 THEN B64Fail ELSE B64Ok(st.out))
    ELSE IF s[i] = PadChar
    THEN (IF st.qp >= 2 /\ st.qp + st.pads + 1 >= 4
          THEN (IF strict /\ i < Len(s) THEN B64Fail ELSE B64Ok(st.out))
          ELSE A2bFrom(s, i + 1,
                       [st EXCEPT !.started = TRUE,
                                  !.pads = IF st.qp >= 2 THEN st.pads + 1 ELSE st.pads],
                       strict))
    ELSE IF ~IsB64Char(s[i])
    THEN (IF strict THEN B64Fail ELSE A2bFrom(s, i + 1, st, strict))
    ELSE IF strict /\ st.started
    THEN B64Fail
    ELSE A2bFrom(s, i + 1, B64Push(st, B64Val(s[i])), strict)

A2bStart == [qp |-> 0, left |-> 0, pads |-> 0, started |-> FALSE, out |-> <<>>]

\* base64.b64decode(s): characters outside the alphabet are discarded
B64DecodeLenient(s) == A2bFrom(s, 1, A2bStart, FALSE)

\* base64.b64decode(s, validate=True)
B64DecodeValidate(s) ==
    IF s # <<>> /\ s[1] = PadChar THEN B64Fail ELSE A2bFrom(s, 1, A2bStart, TRUE)

(***************************************************************************)
(* The token library (rfc3161ng over pyasn1), which tsa_service.py calls   *)
(* and does not contain.  It is modelled by a tag-length-value format that *)
(* keeps what the service depends on: a response and a bare token are both *)
(* a SEQUENCE (tag 48) with a one-byte length, the first inner tag tells   *)
(* them apart (48: the response's status, 6: the token's content type),    *)
(* and the rest is the message imprint.                                    *)
(***************************************************************************)
NoToken == [present |-> FALSE, imprint |-> <<>>]

Token(imprint) == [present |-> TRUE, imprint |-> imprint]

NoTsr == [status |-> "", time_stamp_token |-> NoToken]

\* DER bytes of a structure t = [kind, imprint]
Der(t) ==
    <<48, Len(t.imprint) + 1, IF t.kind = "tsr" THEN 48 ELSE 6>> \o t.imprint

\* rfc3161ng.decode_timestamp_response: the whole of b is one TimeStampResp
DecodeTimestampResponse(b) ==
    IF Len(b) >= 3 /\ b[1] = 48 /\ b[2] = Len(b) - 2 /\ b[3] = 48
    THEN [ok |-> TRUE,
          tsr |-> [status |-> IF Len(b) > 3 THEN "granted" ELSE "rejection",
                   time_stamp_token |->
                       IF Len(b) > 3 THEN Token(SubSeq(b, 4, Len(b))) ELSE NoToken]]
    ELSE [ok |-> FALSE, tsr |-> NoTsr]

\* der_decoder.decode(b, asn1Spec=TimeStampToken())[0]: bytes after the
\* first structure are left over and ignored
DerDecodeToken(b) ==
    IF Len(b) >= 3 /\ b[1] = 48 /\ b[2] >= 1 /\ b[2] <= Len(b) - 2 /\ b[3] = 6
    THEN [ok |-> TRUE, tst |-> Token(SubSeq(b, 4, b[2] + 2))]
    ELSE [ok |-> FALSE, tst |-> NoToken]

\* rfc3161ng.get_timestamp: a whole TimeStampToken whose TSTInfo is readable
GetTimestamp(b) ==
    LET r == DerDecodeToken(b) IN
    [ok |-> r.ok /\ b[2] = Len(b) - 2 /\ r.tst.imprint # <<>>]

\* which parts of the library can be loaded
LibFull == [import |-> TRUE, decoder |-> TRUE, parser |-> TRUE]

Libs ==
    {LibFull,
     [import |-> FALSE, decoder |-> FALSE, parser |-> FALSE],
     [import |-> TRUE, decoder |-> FALSE, parser |-> TRUE],
     [import |-> TRUE, decoder |-> TRUE, parser |-> FALSE]}

(***************************************************************************)
(* _decode_tsa_response.  The result is [ok, tsr, err, attempts]; attempts *)
(* lists, in order, the steps the call performed.                          *)
(***************************************************************************)
ErrBinary == <<"tsa response is binary but not RFC3161 TimeStampResp">>

ErrAlphabet == <<"tsa response is not base64 or ASN.1 data">>

ErrBase64 == <<"binascii.Error">>

ErrAsn1 == <<"PyAsn1Error">>

DecodeOk(tsr, attempts) ==
    [ok |-> TRUE, tsr |-> tsr, err |-> NoError, attempts |-> attempts]

DecodeErr(err, attempts) ==
    [ok |-> FALSE, tsr |-> NoTsr, err |-> err, attempts |-> attempts]

\* decoder(base64.b64decode(b64))
DecodeB64Lenient(b64, done, tag) ==
    LET raw == B64DecodeLenient(b64)
        tried == Append(done, tag \o ":b64decode")
    IN  IF ~raw.ok
        THEN DecodeErr(ErrBase64, tried)
        ELSE LET r == DecodeTimestampResponse(raw.val) IN
             IF r.ok
             THEN DecodeOk(r.tsr, Append(tried, tag \o ":decoder"))
             ELSE DecodeErr(ErrAsn1, Append(tried, tag \o ":decoder"))

\* PadToQuad with the padding of lines 98-100 left out
PadToQuadOmitted(b64_text) == b64_text

\* lines 98-104: pad to a multiple of 4, decode validating, else decode again
PadToQuad(b64_text) ==
    b64_text \o [i \in 1..((4 - (Len(b64_text) % 4)) % 4) |-> PadChar]

DecodeBareBase64(b64_text, done) ==
    LET padded == PadToQuad(b64_text)
        raw == B64DecodeValidate(padded)
        tried == Append(done, "b64:b64decode(validate)")
        first == IF raw.ok THEN DecodeTimestampResponse(raw.val)
                 ELSE [ok |-> FALSE, tsr |-> NoTsr]
    IN  IF raw.ok /\ first.ok
        THEN DecodeOk(first.tsr, Append(tried, "b64:decoder"))
        ELSE DecodeB64Lenient(padded,
                              IF raw.ok THEN Append(tried, "b64:decoder") ELSE tried,
                              "b64retry")

\* DecodeTsaResponse with base64 tried before the strict decode and the ASCII test
DecodeTsaResponseBase64First(tsr_bytes) ==
    LET early == DecodeB64Lenient(RemoveLineBreaks(tsr_bytes), <<>>, "b64")
        strict == DecodeTimestampResponse(tsr_bytes)
    IN  IF early.ok THEN early
        ELSE IF strict.ok THEN DecodeOk(strict.tsr, Append(early.attempts, "strict"))
        ELSE DecodeErr(ErrBinary, early.attempts \o <<"strict", "ascii">>)

\* DecodeTsaResponse without the ASCII test of lines 85-88
DecodeTsaResponseNoAsciiTest(tsr_bytes) ==
    LET strict == DecodeTimestampResponse(tsr_bytes)
        text == Strip(tsr_bytes)
        b64_text == RemoveLineBreaks(text)
    IN  IF strict.ok
        THEN DecodeOk(strict.tsr, <<"strict">>)
        ELSE IF StartsWith(text, PemBegin)
        THEN DecodeB64Lenient(PemBody(text), <<"strict">>, "pem")
        ELSE IF \E i \in 1..Len(b64_text) : b64_text[i] \notin Allowed
        THEN DecodeB64Lenient(b64_text, <<"strict">>, "b64")
        ELSE DecodeBareBase64(b64_text, <<"strict", "b64:alphabet">>)

\* DecodeTsaResponse without the alphabet test of lines 95-97
DecodeTsaResponseNoAlphabetTest(tsr_bytes) ==
    LET strict == DecodeTimestampResponse(tsr_bytes)
        text == Strip(tsr_bytes)
        b64_text == RemoveLineBreaks(text)
    IN  IF strict.ok
        THEN DecodeOk(strict.tsr, <<"strict">>)
        ELSE IF ~IsAscii(tsr_bytes)
        THEN DecodeErr(ErrBinary, <<"strict", "ascii">>)
        ELSE IF StartsWith(text, PemBegin)
        THEN DecodeB64Lenient(PemBody(text), <<"strict", "ascii">>, "pem")
        ELSE DecodeBareBase64(b64_text, <<"strict", "ascii">>)

DecodeTsaResponse(tsr_bytes) ==
    LET strict == DecodeTimestampResponse(tsr_bytes)
        text == Strip(tsr_bytes)
        b64_text == RemoveLineBreaks(text)
    IN  IF strict.ok
        THEN DecodeOk(strict.tsr, <<"strict">>)
        ELSE IF ~IsAscii(tsr_bytes)
        THEN DecodeErr(ErrBinary, <<"strict", "ascii">>)
        ELSE IF StartsWith(text, PemBegin)
        THEN DecodeB64Lenient(PemBody(text), <<"strict", "ascii">>, "pem")
        ELSE IF \E i \in 1..Len(b64_text) : b64_text[i] \notin Allowed
        THEN DecodeErr(ErrAlphabet, <<"strict", "ascii", "b64:alphabet">>)
        ELSE DecodeBareBase64(b64_text, <<"strict", "ascii", "b64:alphabet">>)

(***************************************************************************)
(* Hex digests: bytes.fromhex and bytes.hex.                               *)
(***************************************************************************)
\* 0-9 a-f, in value order
HexChars == <<48, 49, 50, 51, 52, 53, 54, 55, 56, 57, 97, 98, 99, 100, 101, 102>>

\* A-F
HexUpper == <<65, 66, 67, 68, 69, 70>>

IsHexChar(c) ==
    (\E i \in 1..16 : HexChars[i] = c) \/ (\E i \in 1..6 : HexUpper[i] = c)

HexVal(c) ==
    IF \E i \in 1..16 : HexChars[i] = c
    THEN (CHOOSE i \in 1..16 : HexChars[i] = c) - 1
    ELSE (CHOOSE i \in 1..6 : HexUpper[i] = c) + 9

\* bytes.fromhex(hash_hex): [ok, val]; a ValueError is ok = FALSE
FromHex(h) ==
    IF Len(h) % 2 = 0 /\ \A i \in 1..Len(h) : IsHexChar(h[i])
    THEN [ok |-> TRUE,
          val |-> [i \in 1..(Len(h) \div 2) |->
                      HexVal(h[2 * i - 1]) * 16 + HexVal(h[2 * i])]]
    ELSE [ok |-> FALSE, val |-> <<>>]

\* bytes.hex()
RECURSIVE ToHex(_)
ToHex(b) ==
    IF b = <<>> THEN <<>>
    ELSE <<HexChars[(b[1] \div 16) + 1], HexChars[(b[1] % 16) + 1]>> \o ToHex(Tail(b))

ErrFromHex == <<"non-hexadecimal number found in fromhex() arg">>

(***************************************************************************)
(* _extract_tsa_info, _extract_tst_token, _extract_message_imprint,        *)
(* _check_tsa_hash.  An info dictionary is a set of <<key, value>> pairs.  *)
(***************************************************************************)
ErrImport == <<"No module named 'rfc3161ng'">>

ErrInvalid == "invalid tsa response: "

ErrNotToken == "not a valid TimeStampToken"

\* _extract_tsa_info: [info, error, attempts]; attempts are the steps of the
\* decode chain followed by "get_timestamp" when the token parser was tried
ExtractTsaInfo(tsr_bytes, lib) ==
    LET dec == DecodeTsaResponse(tsr_bytes)
        tried == IF lib.decoder THEN dec.attempts ELSE <<>>
    IN  IF ~lib.import
        THEN [info |-> {}, error |-> ErrImport, attempts |-> <<>>]
        ELSE IF lib.decoder /\ dec.ok
        THEN [info |-> {<<"status", dec.tsr.status>>, <<"format", "tsr">>},
              error |-> NoError, attempts |-> tried]
        ELSE IF lib.parser
        THEN (IF GetTimestamp(tsr_bytes).ok
              THEN [info |-> {<<"time", "gen_time">>, <<"format", "tst">>},
                    error |-> NoError,
                    attempts |-> Append(tried, "get_timestamp")]
              ELSE [info |-> {}, error |-> <<ErrInvalid, ErrNotToken>>,
                    attempts |-> Append(tried, "get_timestamp")])
        ELSE [info |-> {}, error |-> <<ErrInvalid, "decoder unavailable">>,
              attempts |-> tried]

\* _extract_tst_token: the token (present = FALSE is None)
ExtractTstToken(tsr_bytes, lib) ==
    LET dec == DecodeTsaResponse(tsr_bytes)
        der == DerDecodeToken(tsr_bytes)
    IN  IF lib.decoder /\ dec.ok /\ dec.tsr.time_stamp_token.present
        THEN dec.tsr.time_stamp_token
        ELSE IF der.ok THEN der.tst ELSE NoToken

\* _extract_message_imprint: [ok, digest_bytes, debug_info]; every error
\* inside is caught and gives (None, {})
ExtractMessageImprint(tst) ==
    IF tst.imprint = <<>>
    THEN [ok |-> FALSE, digest_bytes |-> <<>>, debug_info |-> {}]
    ELSE [ok |-> TRUE, digest_bytes |-> tst.imprint,
          debug_info |-> {<<"hash_alg", "sha256">>,
                          <<"imprint_hex", ToHex(tst.imprint)>>}]

\* the comparison made on the common prefix only
ImprintDiffersOnPrefix(imprint, digest) ==
    LET n == IF Len(imprint) < Len(digest) THEN Len(imprint) ELSE Len(digest) IN
    SubSeq(imprint, 1, n) # SubSeq(digest, 1, n)

\* imprint != digest
ImprintDiffers(imprint, digest) == imprint # digest

\* CheckTsaHash reporting a token or imprint it could not find as a mismatch
CheckTsaHashAllMismatch(tsr_bytes, hash_hex, lib) ==
    LET digest == FromHex(hash_hex)
        tst == ExtractTstToken(tsr_bytes, lib)
        imp == ExtractMessageImprint(tst)
    IN  IF ~digest.ok THEN <<"invalid hash hex">>
        ELSE IF ~tst.present \/ ~imp.ok
        THEN <<"hash mismatch", ": missing">>
        ELSE IF ImprintDiffers(imp.digest_bytes, digest.val)
        THEN <<"hash mismatch", ": digest not equal", ToString(imp.debug_info)>>
        ELSE NoError

\* _check_tsa_hash: the error, NoError for None.  Neither callee raises
\* (each catches every exception), so line 155 is never reached.
CheckTsaHash(tsr_bytes, hash_hex, lib) ==
    LET digest == FromHex(hash_hex)
        tst == ExtractTstToken(tsr_bytes, lib)
        imp == ExtractMessageImprint(tst)
    IN  IF ~digest.ok THEN <<"invalid hash hex">>
        ELSE IF ~tst.present
        THEN <<ErrInvalid, "missing timestamp token">>
        ELSE IF ~imp.ok
        THEN <<ErrInvalid, "missing message imprint">>
        ELSE IF ImprintDiffers(imp.digest_bytes, digest.val)
        THEN <<"hash mismatch", ": digest not equal", ToString(imp.debug_info)>>
        ELSE NoError

(***************************************************************************)
(* verify_tsa and create_tsa.  A TSAResult is                              *)
(* [success, error, info, tsr_bytes].                                      *)
(***************************************************************************)
TSAResult(success, error, info, tsr_bytes) ==
    [success |-> success, error |-> error, info |-> info, tsr_bytes |-> tsr_bytes]

\* verify_tsa(tsr_bytes, hash_hex); hash_hex = <<>> is None or ""
VerifyTsa(tsr_bytes, hash_hex, lib) ==
    LET ex == ExtractTsaInfo(tsr_bytes, lib)
        hash_error == CheckTsaHash(tsr_bytes, hash_hex, lib)
    IN  IF ~lib.import THEN TSAResult(FALSE, ErrImport, {}, <<>>)
        ELSE IF ex.error # NoError THEN TSAResult(FALSE, ex.error, ex.info, <<>>)
        ELSE IF hash_hex # <<>> /\ hash_error # NoError
        THEN TSAResult(FALSE, hash_error, ex.info, <<>>)
        ELSE TSAResult(TRUE, NoError, ex.info, <<>>)

\* What the authority call timestamper(digest=digest) gives: an exception,
\* nothing, or bytes.
RespRaise == [kind |-> "raise", bytes |-> <<>>]

RespNone == [kind |-> "none", bytes |-> <<>>]

RespBytes(b) == [kind |-> "bytes", bytes |-> b]

\* _response_to_bytes, for the response types the library returns
ResponseToBytes(response) ==
    IF response.kind = "bytes" THEN response.bytes ELSE <<>>

\* create_tsa(hash_hex, tsa_url); url_set is bool(tsa_url)
CreateTsa(hash_hex, url_set, lib, response) ==
    LET tsr_bytes == ResponseToBytes(response)
        ex == ExtractTsaInfo(tsr_bytes, lib)
    IN  IF ~url_set THEN TSAResult(FALSE, <<"TSA_URL not configured">>, {}, <<>>)
        ELSE IF ~lib.import THEN TSAResult(FALSE, ErrImport, {}, <<>>)
        ELSE IF ~FromHex(hash_hex).ok THEN TSAResult(FALSE, ErrFromHex, {}, <<>>)
        ELSE IF response.kind = "raise"
        THEN TSAResult(FALSE, <<"connection error">>, {}, <<>>)
        ELSE IF tsr_bytes = <<>>
        THEN TSAResult(FALSE, <<"TSA response empty">>, {}, <<>>)
        ELSE IF ex.error # NoError
        THEN TSAResult(FALSE, ex.error, {<<"preview", tsr_bytes>>}, <<>>)
        ELSE TSAResult(TRUE, NoError, ex.info, tsr_bytes)

\* _status_from_result
StatusFromResult(success) == IF success THEN "success" ELSE "failed"

(***************************************************************************)
(* The byte strings given to the token service: every structure within the *)
(* bounds, in each of the encodings the service accepts and in damaged     *)
(* forms of them.                                                          *)
(***************************************************************************)
\* the byte values imprints are made of: one ASCII, one not
ImprintBytes == {65, 171}

RECURSIVE SeqsUpTo(_, _)
SeqsUpTo(S, n) ==
    IF n = 0 THEN {<<>>}
    ELSE LET shorter == SeqsUpTo(S, n - 1) IN
         shorter \cup {Append(q, x) : q \in shorter, x \in S}

Imprints == SeqsUpTo(ImprintBytes, MaxImprint)

\* a response (with its token, or a rejection when the imprint is empty) or a
\* bare token
Structures == [kind : {"tsr", "tst"}, imprint : Imprints]

\* base64.b64encode
RECURSIVE B64Encode(_)
B64Encode(b) ==
    IF b = <<>> THEN <<>>
    ELSE IF Len(b) = 1
    THEN <<B64Chars[(b[1] \div 4) + 1], B64Chars[(b[1] % 4) * 16 + 1],
           PadChar, PadChar>>
    ELSE IF Len(b) = 2
    THEN <<B64Chars[(b[1] \div 4) + 1],
           B64Chars[(b[1] % 4) * 16 + (b[2] \div 16) + 1],
           B64Chars[(b[2] % 16) * 4 + 1], PadChar>>
    ELSE <<B64Chars[(b[1] \div 4) + 1],
           B64Chars[(b[1] % 4) * 16 + (b[2] \div 16) + 1],
           B64Chars[(b[2] % 16) * 4 + (b[3] \div 64) + 1],
           B64Chars[(b[3] % 64) + 1]>> \o B64Encode(SubSeq(b, 4, Len(b)))

\* text without its trailing "="
RECURSIVE DropPadding(_)
DropPadding(text) ==
    IF text # <<>> /\ text[Len(text)] = PadChar
    THEN DropPadding(SubSeq(text, 1, Len(text) - 1))
    ELSE text

Forms ==
    {"der", "pem", "b64", "b64_nopad", "b64_lines", "junk", "trunc", "badchar", "cut"}

\* the forms that carry the structure unchanged
TextForms == {"pem", "b64", "b64_nopad", "b64_lines"}

Encode(form, t) ==
    LET der == Der(t)
        b64 == B64Encode(der)
    IN  CASE form = "der" -> der
          [] form = "pem" -> PemBegin \o <<10>> \o b64 \o <<13, 10>> \o PemEnd \o <<10>>
          [] form = "b64" -> b64
          [] form = "b64_nopad" -> DropPadding(b64)
          [] form = "b64_lines" ->
                <<32>> \o SubSeq(b64, 1, 4) \o <<13, 10>> \o SubSeq(b64, 5, Len(b64)) \o <<10>>
          [] form = "junk" -> Append(der, 255)
          [] form = "trunc" -> SubSeq(der, 1, Len(der) - 1)
          [] form = "badchar" -> <<b64[1], 33>> \o Tail(b64)
          [] form = "cut" -> SubSeq(DropPadding(b64), 1, Len(DropPadding(b64)) - 1)

\* hash_hex as callers give it: absent, the hex of a digest, or not hex
HashInputs ==
    {<<>>, <<122, 122>>} \cup {ToHex(d) : d \in Imprints \ {<<>>}}

(***************************************************************************)
(* The proof library (python-opentimestamps), which ots_service.py calls   *)
(* and does not contain.  A Timestamp is [msg, attestations, ops]: msg is  *)
(* the message the node commits to (the digest followed by the operations  *)
(* applied to it), attestations a set of [tag, val], ops a function from   *)
(* operation tags to child Timestamps.  val is a calendar (Pending) or a   *)
(* block height (anchors).                                                 *)
(***************************************************************************)
\* PendingAttestation
TagPending == 131

\* BitcoinBlockHeaderAttestation
TagBitcoin == 5

\* LitecoinBlockHeaderAttestation
TagLitecoin == 6

\* a tag the library does not know: UnknownAttestation
TagUnknown == 99

\* the operations of the model: sha256, two appends of one byte and the
\* append of both bytes at once
OpTags == {8, 240, 241, 242}

\* op(msg): the message an operation gives; 8, 240 and 241 add their own
\* byte, 242 adds the bytes 240 and 241
OpResult(msg, op) == IF op = 242 THEN msg \o <<240, 241>> ELSE Append(msg, op)

NoOps == [o \in {} |-> 0]

Timestamp(msg) == [msg |-> msg, attestations |-> {}, ops |-> NoOps]

Att(tag, val) == [tag |-> tag, val |-> val]

\* a node holding one attestation
Leaf(msg, att) == [msg |-> msg, attestations |-> {att}, ops |-> NoOps]

\* a node whose operation op leads to child
Via(msg, op, child) == [msg |-> msg, attestations |-> {}, ops |-> (op :> child)]

\* Timestamp.merge when both commit to the same message: the union of the
\* attestations and, operation by operation, of the children
RECURSIVE MergeSame(_, _)
MergeSame(a, b) ==
    [msg |-> a.msg,
     attestations |-> a.attestations \cup b.attestations,
     ops |-> [o \in (DOMAIN a.ops) \cup (DOMAIN b.ops) |->
                 IF o \in DOMAIN a.ops /\ o \in DOMAIN b.ops
                 THEN MergeSame(a.ops[o], b.ops[o])
                 ELSE IF o \in DOMAIN a.ops THEN a.ops[o] ELSE b.ops[o]]]

\* a merge that keeps the other's branch beside an equal branch of its own
\* (under the next free operation number) instead of uniting the two
MergeKeepsBoth(a, b) ==
    IF a.msg = b.msg
    THEN [ok |-> TRUE,
          ts |-> [msg |-> a.msg,
                  attestations |-> a.attestations \cup b.attestations,
                  ops |-> [o \in (DOMAIN a.ops)
                                  \cup {IF p \in DOMAIN a.ops THEN p + 2 ELSE p :
                                           p \in DOMAIN b.ops} |->
                              IF o \in DOMAIN a.ops THEN a.ops[o]
                              ELSE IF o \in DOMAIN b.ops THEN b.ops[o]
                              ELSE b.ops[o - 2]]]]
    ELSE [ok |-> FALSE, ts |-> a]

\* a merge that takes the other's content only into an empty timestamp
MergeFirstWins(a, b) ==
    IF a.msg = b.msg
    THEN [ok |-> TRUE,
          ts |-> IF a.attestations = {} /\ DOMAIN a.ops = {} THEN b ELSE a]
    ELSE [ok |-> FALSE, ts |-> a]

\* Timestamp.merge(other): [ok, ts]; a ValueError when the messages differ
Merge(a, b) ==
    IF a.msg = b.msg
    THEN [ok |-> TRUE, ts |-> MergeSame(a, b)]
    ELSE [ok |-> FALSE, ts |-> a]

\* Timestamp.all_attestations(): the attestations of the node and of every
\* node below it, as a sequence of [msg, att], each node's in key order
AttKey(att) == att.tag * 1000 + att.val

RECURSIVE SortedAtts(_)
SortedAtts(S) ==
    IF S = {} THEN <<>>
    ELSE LET least == CHOOSE a \in S : \A o \in S : AttKey(a) <= AttKey(o) IN
         <<least>> \o SortedAtts(S \ {least})

RECURSIVE SortedOps(_)
SortedOps(S) ==
    IF S = {} THEN <<>>
    ELSE LET least == CHOOSE a \in S : \A o \in S : a <= o IN
         <<least>> \o SortedOps(S \ {least})

RECURSIVE AllAttestations(_)
RECURSIVE AllBelow(_, _)
AllBelow(ts, ops) ==
    IF ops = <<>> THEN <<>>
    ELSE AllAttestations(ts.ops[Head(ops)]) \o AllBelow(ts, Tail(ops))

AllAttestations(ts) ==
    LET own == SortedAtts(ts.attestations) IN
    [i \in 1..Len(own) |-> [msg |-> ts.msg, att |-> own[i]]]
        \o AllBelow(ts, SortedOps(DOMAIN ts.ops))

(***************************************************************************)
(* The detached-proof container.  One number per field: magic, version,    *)
(* the tag of the file hash operation, the digest, then the tree: every    *)
(* item of a node but the last is preceded by 255; an attestation is       *)
(* 0, tag, val; an operation is its tag followed by the child.             *)
(***************************************************************************)
\* the header magic of a proof file
Magic == 79

\* the major version of the container
Version == 1

\* OpSHA256, the file hash operation
OpSHA256 == 8

\* the digest length of the file hash operation, in the model's bytes
DigestLength == 2

RECURSIVE SerializeTs(_)
RECURSIVE SerializeOps(_, _)
SerializeOps(ts, ops) ==
    IF ops = <<>> THEN <<>>
    ELSE (IF Len(ops) > 1 THEN <<255>> ELSE <<>>)
         \o <<Head(ops)>> \o SerializeTs(ts.ops[Head(ops)])
         \o SerializeOps(ts, Tail(ops))

RECURSIVE SerializeAtts(_, _)
SerializeAtts(atts, more) ==
    IF atts = <<>> THEN <<>>
    ELSE (IF Len(atts) > 1 \/ more THEN <<255>> ELSE <<>>)
         \o <<0, Head(atts).tag, Head(atts).val>>
         \o SerializeAtts(Tail(atts), more)

\* Timestamp.serialize; an empty timestamp cannot be serialized
CanSerialize(ts) == ts.attestations # {} \/ DOMAIN ts.ops # {}

SerializeTs(ts) ==
    SerializeAtts(SortedAtts(ts.attestations), DOMAIN ts.ops # {})
        \o SerializeOps(ts, SortedOps(DOMAIN ts.ops))

\* DetachedTimestampFile(file_hash_op, timestamp).serialize(ctx)
SerializeDetached(file_hash_op, ts) ==
    <<Magic, Version, file_hash_op>> \o ts.msg \o SerializeTs(ts)

\* Timestamp.deserialize(ctx, initial_msg): [ok, ts, pos]; pos is the place
\* of the next unread number
ParseFail(pos) == [ok |-> FALSE, ts |-> Timestamp(<<>>), pos |-> pos]

RECURSIVE ParseItems(_, _, _)
RECURSIVE ParseItem(_, _, _)
ParseItem(b, pos, node) ==
    IF pos > Len(b) THEN ParseFail(pos)
    ELSE IF b[pos] = 0
    THEN (IF pos + 2 > Len(b) THEN ParseFail(pos)
          ELSE [ok |-> TRUE,
                ts |-> [node EXCEPT !.attestations = @ \cup {Att(b[pos + 1], b[pos + 2])}],
                pos |-> pos + 3])
    ELSE IF b[pos] \in OpTags
    THEN LET child == ParseItems(b, pos + 1, Timestamp(OpResult(node.msg, b[pos]))) IN
         IF ~child.ok THEN ParseFail(child.pos)
         ELSE [ok |-> TRUE,
               ts |-> [node EXCEPT !.ops =
                           [o \in (DOMAIN node.ops) \cup {b[pos]} |->
                               IF o = b[pos] THEN child.ts ELSE node.ops[o]]],
               pos |-> child.pos]
    ELSE ParseFail(pos)

ParseItems(b, pos, node) ==
    IF pos > Len(b) THEN ParseFail(pos)
    ELSE IF b[pos] = 255
    THEN LET item == ParseItem(b, pos + 1, node) IN
         IF ~item.ok THEN item ELSE ParseItems(b, item.pos, item.ts)
    ELSE ParseItem(b, pos, node)

\* DetachedTimestampFile.deserialize(ctx): [ok, file_hash_op, timestamp]
DeserializeDetached(b) ==
    LET start == 4 + DigestLength
        parsed == ParseItems(b, start, Timestamp(SubSeq(b, 4, 3 + DigestLength)))
    IN  IF /\ Len(b) >= start
           /\ b[1] = Magic
           /\ b[2] = Version
           /\ b[3] = OpSHA256
           /\ parsed.ok
           /\ parsed.pos = Len(b) + 1
        THEN [ok |-> TRUE, file_hash_op |-> b[3], timestamp |-> parsed.ts]
        ELSE [ok |-> FALSE, file_hash_op |-> 0, timestamp |-> Timestamp(<<>>)]

\* the serialization of the client's own Timestamp type: no header
SerializeBare(ts) == ts.msg \o SerializeTs(ts)

DeserializeBare(b) ==
    LET parsed == ParseItems(b, DigestLength + 1, Timestamp(SubSeq(b, 1, DigestLength))) IN
    IF Len(b) > DigestLength /\ parsed.ok /\ parsed.pos = Len(b) + 1
    THEN [ok |-> TRUE, timestamp |-> parsed.ts]
    ELSE [ok |-> FALSE, timestamp |-> Timestamp(<<>>)]

(***************************************************************************)
(* ots_service.py: results, the environment of a call, create_ots.         *)
(*                                                                         *)
(* An OTSResult is [success, error, info, ots_bytes, updated_ots_bytes];   *)
(* <<>> stands for None.  info is a record of every key the service may    *)
(* set, keys being the set of those it did set.  An operation returns      *)
(* [result, net, tree]: net lists the network requests it made, in order,  *)
(* tree is the proof tree it ended with.                                   *)
(***************************************************************************)
NoInfo ==
    [keys |-> {}, calendar_success |-> 0, calendar_errors |-> <<>>,
     attestations |-> 0, attestation_types |-> <<>>,
     has_blockchain_proof |-> FALSE, has_pending_attestations |-> FALSE,
     blockchain_proofs |-> <<>>, upgrade_errors |-> <<>>,
     calendar_results |-> <<>>, hash_match |-> FALSE, result |-> ""]

OTSResult(success, error, info, ots_bytes, updated_ots_bytes) ==
    [success |-> success, error |-> error, info |-> info,
     ots_bytes |-> ots_bytes, updated_ots_bytes |-> updated_ots_bytes]

OtsOut(result, net, tree) == [result |-> result, net |-> net, tree |-> tree]

\* one network request: kind is "submit", "stamp", "verify", "upgrade" or
\* "block_hash"; n is the calendar or the block height
NetReq(kind, chain, n) == [kind |-> kind, chain |-> chain, n |-> n]

\* _load_ots_client: env.client says whether a client with stamp and verify
\* loads; env.core whether opentimestamps.core and .calendar load
OtsEnvs ==
    {[client |-> TRUE, core |-> TRUE],
     [client |-> FALSE, core |-> TRUE],
     [client |-> FALSE, core |-> FALSE]}

ErrCore == <<"opentimestamps core unavailable: ", "No module named 'opentimestamps'">>

ErrMergeMsg == "Can't merge timestamps for different messages together"

ErrNetwork == "connection failed"

\* what a calendar request gives: an exception or a timestamp
CalRaise == [kind |-> "raise", ts |-> Timestamp(<<>>)]

CalTs(ts) == [kind |-> "ts", ts |-> ts]

\* line 65: errors.append(f"{url}: {exc}") with the calendar left out
CalendarErrorWithoutUrl(url, exc) == <<0, exc>>

\* line 65: f"{url}: {exc}", as the pair of its two parts
CalendarError(url, exc) == <<url, exc>>

\* lines 58-65 with a loop that ends at the first calendar that fails
RECURSIVE SubmitFromStopsAtFailure(_, _, _, _, _)
SubmitFromStopsAtFailure(i, calendars, digest, answers, st) ==
    IF i > Len(calendars) THEN st
    ELSE LET url == calendars[i]
             sent == Append(st.net, NetReq("submit", "", url))
             merged == Merge(st.base_ts, answers[i].ts)
         IN  IF answers[i].kind = "raise"
             THEN [st EXCEPT !.net = sent,
                             !.errors = Append(@, CalendarError(url, ErrNetwork))]
             ELSE IF ~merged.ok
             THEN [st EXCEPT !.net = sent,
                             !.errors = Append(@, CalendarError(url, ErrMergeMsg))]
             ELSE SubmitFromStopsAtFailure(i + 1, calendars, digest, answers,
                      [st EXCEPT !.net = sent,
                                 !.base_ts = merged.ts,
                                 !.success_count = @ + 1])

\* lines 58-65: the loop over the calendars, from the i-th on.
\* st = [base_ts, errors, success_count, net]
RECURSIVE SubmitFrom(_, _, _, _, _)
SubmitFrom(i, calendars, digest, answers, st) ==
    IF i > Len(calendars) THEN st
    ELSE LET url == calendars[i]
             sent == Append(st.net, NetReq("submit", "", url))
             merged == Merge(st.base_ts, answers[i].ts)
         IN  SubmitFrom(i + 1, calendars, digest, answers,
                 IF answers[i].kind = "raise"
                 THEN [st EXCEPT !.net = sent,
                                 !.errors = Append(@, CalendarError(url, ErrNetwork))]
                 ELSE IF ~merged.ok
                 THEN [st EXCEPT !.net = sent,
                                 !.errors = Append(@, CalendarError(url, ErrMergeMsg))]
                 ELSE [st EXCEPT !.net = sent,
                                 !.base_ts = merged.ts,
                                 !.success_count = @ + 1])

\* line 67 taken as if success_count <= 1
NoneSucceededBelowTwo(success_count) == success_count <= 1

\* line 67: if success_count == 0
NoneSucceeded(success_count) == success_count = 0

\* _create_ots_with_calendar(hash_hex, calendars); answers[i] is what the
\* i-th calendar gives.  A bad hash_hex raises, which create_ots catches.
CreateOtsWithCalendar(hash_hex, calendars, env, answers) ==
    LET digest == FromHex(hash_hex)
        st == SubmitFrom(1, calendars, digest.val, answers,
                         [base_ts |-> Timestamp(digest.val), errors |-> <<>>,
                          success_count |-> 0, net |-> <<>>])
    IN  IF ~env.core
        THEN OtsOut(OTSResult(FALSE, ErrCore, NoInfo, <<>>, <<>>), <<>>, Timestamp(<<>>))
        ELSE IF calendars = <<>>
        THEN OtsOut(OTSResult(FALSE, <<"no calendars configured">>, NoInfo, <<>>, <<>>),
                    <<>>, Timestamp(<<>>))
        ELSE IF ~digest.ok
        THEN OtsOut(OTSResult(FALSE, ErrFromHex, NoInfo, <<>>, <<>>), <<>>, Timestamp(<<>>))
        ELSE IF NoneSucceeded(st.success_count)
        THEN OtsOut(OTSResult(FALSE, <<"all calendars failed">>,
                              [NoInfo EXCEPT !.keys = {"errors"},
                                             !.calendar_errors = st.errors],
                              <<>>, <<>>),
                    st.net, st.base_ts)
        ELSE IF ~CanSerialize(st.base_ts)
        THEN OtsOut(OTSResult(FALSE, <<"An empty timestamp can't be serialized">>,
                              NoInfo, <<>>, <<>>),
                    st.net, st.base_ts)
        ELSE OtsOut(OTSResult(TRUE, NoError,
                              [NoInfo EXCEPT !.keys = {"calendar_success", "calendar_errors"},
                                             !.calendar_success = st.success_count,
                                             !.calendar_errors = st.errors],
                              SerializeDetached(OpSHA256, st.base_ts), <<>>),
                    st.net, st.base_ts)

\* create_ots(hash_hex, calendars).  With a client loaded the calendar list
\* is not used: the client stamps (stamp is what that call gives).
CreateOts(hash_hex, calendars, env, stamp, answers) ==
    LET digest == FromHex(hash_hex)
        stamped == Merge(Timestamp(digest.val), stamp.ts)
    IN  IF ~env.client
        THEN CreateOtsWithCalendar(hash_hex, calendars, env, answers)
        ELSE IF ~digest.ok
        THEN OtsOut(OTSResult(FALSE, ErrFromHex, NoInfo, <<>>, <<>>), <<>>, Timestamp(<<>>))
        ELSE IF stamp.kind = "raise" \/ ~stamped.ok \/ ~CanSerialize(stamped.ts)
        THEN OtsOut(OTSResult(FALSE, <<ErrNetwork>>, NoInfo, <<>>, <<>>),
                    <<NetReq("stamp", "", 0)>>, Timestamp(digest.val))
        ELSE OtsOut(OTSResult(TRUE, NoError, NoInfo, SerializeBare(stamped.ts), <<>>),
                    <<NetReq("stamp", "", 0)>>, stamped.ts)

(***************************************************************************)
(* ots_service.py: what verify_ots collects from a tree.                   *)
(***************************************************************************)
\* att.__class__.__name__
TypeName(att) ==
    IF att.tag = TagPending THEN "PendingAttestation"
    ELSE IF att.tag = TagBitcoin THEN "BitcoinBlockHeaderAttestation"
    ELSE IF att.tag = TagLitecoin THEN "LitecoinBlockHeaderAttestation"
    ELSE "UnknownAttestation"

\* _collect_attestation_info
CollectAttestationInfo(timestamp) ==
    LET all == AllAttestations(timestamp) IN
    [NoInfo EXCEPT
        !.keys = {"attestations", "attestation_types", "has_blockchain_proof",
                  "has_pending_attestations"},
        !.attestations = Len(all),
        !.attestation_types = [i \in 1..Len(all) |-> TypeName(all[i].att)],
        !.has_blockchain_proof =
            \E i \in 1..Len(all) : all[i].att.tag \in {TagBitcoin, TagLitecoin},
        !.has_pending_attestations =
            \E i \in 1..Len(all) : all[i].att.tag = TagPending]

\* The settings _lookup_block_hash and _build_explorer_url read: for each
\* chain, whether the template is a non-empty string.
Chains == {"bitcoin", "litecoin"}

DefaultSettings ==
    [api |-> [c \in Chains |-> TRUE],
     block_url |-> [c \in Chains |-> TRUE],
     height_url |-> [c \in Chains |-> TRUE]]

\* What the block-hash API gives for one request: kind is "raise" (timeout,
\* no connection), "status" (not ok), "empty", "text" (the hash as text),
\* "data_hash" ({"data": {"hash": ..}}), "hash" ({"hash": ..}), "json"
\* (another JSON value).
ApiAnswer(kind, hash) == [kind |-> kind, hash |-> hash]

\* _lookup_block_hash: [block_hash, error], "" for None
LookupBlockHash(chain, height, settings, answer) ==
    IF chain \notin Chains THEN [block_hash |-> "", error |-> "unsupported chain"]
    ELSE IF ~settings.api[chain]
    THEN [block_hash |-> "", error |-> "block hash api disabled"]
    ELSE IF answer.kind = "raise" THEN [block_hash |-> "", error |-> "timed out"]
    ELSE IF answer.kind = "status" THEN [block_hash |-> "", error |-> "api status 500"]
    ELSE IF answer.kind = "empty" THEN [block_hash |-> "", error |-> "empty api response"]
    ELSE IF answer.kind = "json"
    THEN [block_hash |-> "", error |-> "unexpected api response"]
    ELSE [block_hash |-> answer.hash, error |-> ""]

\* _build_explorer_url: the template used and what it is filled with;
\* kind "none" is None
NoUrl == [kind |-> "none", chain |-> "", hash |-> "", height |-> 0]

\* _build_explorer_url without the height template of lines 146-147
BuildExplorerUrlBlockOnly(chain, height, block_hash, settings) ==
    IF chain \notin Chains THEN NoUrl
    ELSE IF block_hash # "" /\ settings.block_url[chain]
    THEN [kind |-> "block", chain |-> chain, hash |-> block_hash, height |-> height]
    ELSE NoUrl

BuildExplorerUrl(chain, height, block_hash, settings) ==
    IF chain \notin Chains THEN NoUrl
    ELSE IF block_hash # "" /\ settings.block_url[chain]
    THEN [kind |-> "block", chain |-> chain, hash |-> block_hash, height |-> height]
    ELSE IF settings.height_url[chain]
    THEN [kind |-> "height", chain |-> chain, hash |-> block_hash, height |-> height]
    ELSE NoUrl

\* the chain of an anchor, "" for an attestation that is no anchor
ChainOf(att) ==
    IF att.tag = TagBitcoin THEN "bitcoin"
    ELSE IF att.tag = TagLitecoin THEN "litecoin"
    ELSE ""

\* lines 159-183 without the seen set and the cache: every anchor is looked
\* up and gets an entry
RECURSIVE ProofsFromEveryAnchor(_, _, _, _, _)
ProofsFromEveryAnchor(i, all, settings, answers, st) ==
    IF i > Len(all) THEN st
    ELSE LET att == all[i].att
             chain == ChainOf(att)
             key == <<chain, att.val>>
             found == LookupBlockHash(chain, att.val, settings, answers[key])
             proof == [chain |-> chain, height |-> att.val,
                       block_hash |-> found.block_hash,
                       explorer_url |->
                           BuildExplorerUrl(chain, att.val, found.block_hash, settings),
                       block_hash_error |-> found.error]
         IN  IF chain = ""
             THEN ProofsFromEveryAnchor(i + 1, all, settings, answers, st)
             ELSE ProofsFromEveryAnchor(i + 1, all, settings, answers,
                     [st EXCEPT
                         !.proofs = Append(@, proof),
                         !.net = IF settings.api[chain]
                                 THEN Append(@, NetReq("block_hash", chain, att.val))
                                 ELSE @])

\* lines 159-183 with a loop that ends at the first lookup that fails
RECURSIVE ProofsFromStopsAtFailedLookup(_, _, _, _, _)
ProofsFromStopsAtFailedLookup(i, all, settings, answers, st) ==
    IF i > Len(all) THEN st
    ELSE LET att == all[i].att
             chain == ChainOf(att)
             key == <<chain, att.val>>
             found == LookupBlockHash(chain, att.val, settings, answers[key])
             proof == [chain |-> chain, height |-> att.val,
                       block_hash |-> found.block_hash,
                       explorer_url |->
                           BuildExplorerUrl(chain, att.val, found.block_hash, settings),
                       block_hash_error |-> found.error]
             next == [st EXCEPT
                         !.proofs = Append(@, proof),
                         !.seen = @ \cup {key},
                         !.net = IF settings.api[chain]
                                 THEN Append(@, NetReq("block_hash", chain, att.val))
                                 ELSE @]
         IN  IF chain = "" \/ key \in st.seen
             THEN ProofsFromStopsAtFailedLookup(i + 1, all, settings, answers, st)
             ELSE IF found.error # "" THEN next
             ELSE ProofsFromStopsAtFailedLookup(i + 1, all, settings, answers, next)

\* lines 159-183: the loop of _collect_blockchain_proofs from the i-th
\* attestation on.  st = [proofs, seen, cache, net]; answers is what the API
\* gives for each <<chain, height>>.
RECURSIVE ProofsFrom(_, _, _, _, _)
ProofsFrom(i, all, settings, answers, st) ==
    IF i > Len(all) THEN st
    ELSE LET att == all[i].att
             chain == ChainOf(att)
             key == <<chain, att.val>>
             asked == key \notin DOMAIN st.cache
             cache == IF asked
                      THEN [k \in (DOMAIN st.cache) \cup {key} |->
                               IF k = key
                               THEN LookupBlockHash(chain, att.val, settings, answers[key])
                               ELSE st.cache[k]]
                      ELSE st.cache
             requested == asked /\ settings.api[chain]
             proof == [chain |-> chain, height |-> att.val,
                       block_hash |-> cache[key].block_hash,
                       explorer_url |->
                           BuildExplorerUrl(chain, att.val, cache[key].block_hash, settings),
                       block_hash_error |-> cache[key].error]
         IN  IF chain = "" \/ key \in st.seen
             THEN ProofsFrom(i + 1, all, settings, answers, st)
             ELSE ProofsFrom(i + 1, all, settings, answers,
                     [proofs |-> Append(st.proofs, proof),
                      seen |-> st.seen \cup {key},
                      cache |-> cache,
                      net |-> IF requested
                              THEN Append(st.net, NetReq("block_hash", chain, att.val))
                              ELSE st.net])

NoCache == [k \in {} |-> 0]

\* _collect_blockchain_proofs: [proofs, net]
CollectBlockchainProofs(timestamp, settings, answers) ==
    LET st == ProofsFrom(1, AllAttestations(timestamp), settings, answers,
                         [proofs |-> <<>>, seen |-> {}, cache |-> NoCache, net |-> <<>>])
    IN  [proofs |-> st.proofs, net |-> st.net]

\* _collect_pending_attestations: walk(node) takes the node's Pending
\* attestations, then walks each child; the result lists [msg, att, path]:
\* the pair (node, att) of the code, the node being the one reached from
\* the root by the operations of path, msg its message
RECURSIVE Walk(_, _)
RECURSIVE WalkChildren(_, _, _)
WalkChildren(node, ops, path) ==
    IF ops = <<>> THEN <<>>
    ELSE Walk(node.ops[Head(ops)], Append(path, Head(ops)))
             \o WalkChildren(node, Tail(ops), path)

\* line 196 without the isinstance test: every attestation of the node is
\* taken
WalkEveryAttestation(node, path) ==
    LET own == SortedAtts(node.attestations) IN
    [i \in 1..Len(own) |-> [msg |-> node.msg, att |-> own[i], path |-> path]]
        \o WalkChildren(node, SortedOps(DOMAIN node.ops), path)

\* the entries of a traversal without those that repeat the message and
\* the attestation of an earlier entry
RECURSIVE FirstOfEachMessage(_, _)
FirstOfEachMessage(entries, seen) ==
    IF entries = <<>> THEN <<>>
    ELSE IF <<Head(entries).msg, Head(entries).att>> \in seen
    THEN FirstOfEachMessage(Tail(entries), seen)
    ELSE <<Head(entries)>>
             \o FirstOfEachMessage(Tail(entries),
                                   seen \cup {<<Head(entries).msg, Head(entries).att>>})

\* lines 194-199 with a visited set keyed by the message of the node
WalkVisitedByMessage(node, path) ==
    LET own == SelectSeq(SortedAtts(node.attestations), LAMBDA a : a.tag = TagPending) IN
    FirstOfEachMessage(
        [i \in 1..Len(own) |-> [msg |-> node.msg, att |-> own[i], path |-> path]]
            \o WalkChildren(node, SortedOps(DOMAIN node.ops), path),
        {})

Walk(node, path) ==
    LET own == SelectSeq(SortedAtts(node.attestations), LAMBDA a : a.tag = TagPending) IN
    [i \in 1..Len(own) |-> [msg |-> node.msg, att |-> own[i], path |-> path]]
        \o WalkChildren(node, SortedOps(DOMAIN node.ops), path)

CollectPendingAttestations(timestamp) == Walk(timestamp, <<>>)

(***************************************************************************)
(* ots_service.py: verify_ots.                                             *)
(***************************************************************************)
ErrDeserialize == <<"truncated or malformed proof">>

ErrVerify == <<"verification failed">>

\* lines 249-250 with the node replaced by what the calendar returned
RECURSIVE MergeAtReplaces(_, _, _)
MergeAtReplaces(ts, path, other) ==
    IF path = <<>> THEN other
    ELSE [ts EXCEPT !.ops[Head(path)] = MergeAtReplaces(@, Tail(path), other)]

\* node.merge(cal_ts) for the node of the tree reached by path
RECURSIVE MergeAt(_, _, _)
MergeAt(ts, path, other) ==
    IF path = <<>> THEN MergeSame(ts, other)
    ELSE [ts EXCEPT !.ops[Head(path)] = MergeAt(@, Tail(path), other)]

\* one entry of calendar_results; summary is set on success, error on failure
CalendarResult(uri, success, error, summary) ==
    [uri |-> uri, success |-> success, error |-> error, summary |-> summary]

\* lines 245-267 with a loop that ends at the first upgrade that fails
RECURSIVE UpgradeFromStopsAtFailure(_, _, _, _)
UpgradeFromStopsAtFailure(i, pending, answers, st) ==
    IF i > Len(pending) THEN st
    ELSE LET node_msg == pending[i].msg
             uri == pending[i].att.val
             sent == Append(st.net, NetReq("upgrade", "", uri))
             cal_ts == answers[i].ts
             exc == IF answers[i].kind = "raise" THEN ErrNetwork ELSE ErrMergeMsg
         IN  IF answers[i].kind = "raise" \/ cal_ts.msg # node_msg
             THEN [st EXCEPT
                      !.net = sent,
                      !.upgrade_errors = Append(@, <<uri, exc>>),
                      !.calendar_results =
                          Append(@, CalendarResult(uri, FALSE, exc, NoInfo))]
             ELSE UpgradeFromStopsAtFailure(i + 1, pending, answers,
                      [st EXCEPT
                          !.net = sent,
                          !.ts = MergeAt(@, pending[i].path, cal_ts),
                          !.upgraded = TRUE,
                          !.calendar_results =
                              Append(@, CalendarResult(uri, TRUE, "",
                                                       CollectAttestationInfo(cal_ts)))])

\* lines 245-267: the loop over the pending attestations, from the i-th on.
\* st = [ts, upgraded, upgrade_errors, calendar_results, net]; answers[i] is
\* what the calendar of the i-th gives.
RECURSIVE UpgradeFrom(_, _, _, _)
UpgradeFrom(i, pending, answers, st) ==
    IF i > Len(pending) THEN st
    ELSE LET node_msg == pending[i].msg
             uri == pending[i].att.val
             sent == Append(st.net, NetReq("upgrade", "", uri))
             cal_ts == answers[i].ts
         IN  UpgradeFrom(i + 1, pending, answers,
                 IF answers[i].kind = "raise"
                 THEN [st EXCEPT
                          !.net = sent,
                          !.upgrade_errors = Append(@, <<uri, ErrNetwork>>),
                          !.calendar_results =
                              Append(@, CalendarResult(uri, FALSE, ErrNetwork, NoInfo))]
                 ELSE IF cal_ts.msg # node_msg
                 THEN [st EXCEPT
                          !.net = sent,
                          !.upgrade_errors = Append(@, <<uri, ErrMergeMsg>>),
                          !.calendar_results =
                              Append(@, CalendarResult(uri, FALSE, ErrMergeMsg, NoInfo))]
                 ELSE [st EXCEPT
                          !.net = sent,
                          !.ts = MergeAt(@, pending[i].path, cal_ts),
                          !.upgraded = TRUE,
                          !.calendar_results =
                              Append(@, CalendarResult(uri, TRUE, "",
                                                       CollectAttestationInfo(cal_ts)))])

\* info with the keys verify_ots adds when their value is not empty
WithCollected(info, proofs, upgrade_errors, calendar_results) ==
    [info EXCEPT
        !.keys = @ \cup (IF proofs # <<>> THEN {"blockchain_proofs"} ELSE {})
                   \cup (IF upgrade_errors # <<>> THEN {"upgrade_errors"} ELSE {})
                   \cup (IF calendar_results # <<>> THEN {"calendar_results"} ELSE {}),
        !.blockchain_proofs = proofs,
        !.upgrade_errors = upgrade_errors,
        !.calendar_results = calendar_results]

WithHashMatch(info, match) ==
    [info EXCEPT !.keys = @ \cup {"hash_match"}, !.hash_match = match]

\* lines 305-307 with the exception leaving verify_ots: the caller gets the
\* exception and no OTSResult
OtsFailureRaises(error) ==
    OtsOut([raised |-> error], <<>>, Timestamp(<<>>))

OtsFailure(error) ==
    OtsOut(OTSResult(FALSE, error, NoInfo, <<>>, <<>>), <<>>, Timestamp(<<>>))

\* lines 225-288: verify_ots when no client loads
VerifyOtsCore(ots_bytes, hash_hex, env, upgrades, settings, lookups) ==
    LET detached == DeserializeDetached(ots_bytes)
        expected == FromHex(hash_hex)
        pending == CollectPendingAttestations(detached.timestamp)
        up == UpgradeFrom(1, pending, upgrades,
                          [ts |-> detached.timestamp, upgraded |-> FALSE,
                           upgrade_errors |-> <<>>, calendar_results |-> <<>>,
                           net |-> <<>>])
        bp == CollectBlockchainProofs(up.ts, settings, lookups)
        info == WithCollected(CollectAttestationInfo(up.ts), bp.proofs,
                              up.upgrade_errors, up.calendar_results)
        updated_ots_bytes ==
            IF up.upgraded THEN SerializeDetached(detached.file_hash_op, up.ts) ELSE <<>>
    IN  IF ~env.core THEN OtsFailure(ErrCore)
        ELSE IF ~detached.ok THEN OtsFailure(ErrDeserialize)
        ELSE IF hash_hex # <<>> /\ ~expected.ok THEN OtsFailure(ErrFromHex)
        ELSE IF hash_hex # <<>> /\ detached.timestamp.msg # expected.val
        THEN OtsOut(OTSResult(FALSE, <<"hash mismatch">>,
                              WithHashMatch(CollectAttestationInfo(detached.timestamp), FALSE),
                              <<>>, <<>>),
                    <<>>, detached.timestamp)
        ELSE OtsOut(OTSResult(TRUE, NoError,
                              IF hash_hex # <<>> THEN WithHashMatch(info, TRUE) ELSE info,
                              <<>>, updated_ots_bytes),
                    up.net \o bp.net, up.ts)

\* lines 289-304: verify_ots with a client; outcome is what ots_verify gives:
\* "none", "value" or "raise"
VerifyOtsClient(ots_bytes, hash_hex, outcome, settings, lookups) ==
    LET parsed == DeserializeBare(ots_bytes)
        timestamp == parsed.timestamp
        expected == FromHex(hash_hex)
        verified == <<NetReq("verify", "", 0)>>
        bp == CollectBlockchainProofs(timestamp, settings, lookups)
        info == WithCollected(CollectAttestationInfo(timestamp), bp.proofs, <<>>, <<>>)
        matched == IF hash_hex # <<>> THEN WithHashMatch(info, TRUE) ELSE info
    IN  IF ~parsed.ok THEN OtsFailure(ErrDeserialize)
        ELSE IF outcome = "raise"
        THEN OtsOut(OTSResult(FALSE, ErrVerify, NoInfo, <<>>, <<>>), verified, timestamp)
        ELSE IF hash_hex # <<>> /\ ~expected.ok
        THEN OtsOut(OTSResult(FALSE, ErrFromHex, NoInfo, <<>>, <<>>),
                    verified \o bp.net, timestamp)
        ELSE IF hash_hex # <<>> /\ timestamp.msg # expected.val
        THEN OtsOut(OTSResult(FALSE, <<"hash mismatch">>, WithHashMatch(info, FALSE),
                              <<>>, <<>>),
                    verified \o bp.net, timestamp)
        ELSE OtsOut(OTSResult(TRUE, NoError,
                              IF outcome = "value"
                              THEN [matched EXCEPT !.keys = @ \cup {"result"},
                                                   !.result = "verified"]
                              ELSE matched,
                              <<>>, <<>>),
                    verified \o bp.net, timestamp)

\* verify_ots(ots_bytes, hash_hex); hash_hex = <<>> is None or ""
VerifyOts(ots_bytes, hash_hex, env, outcome, upgrades, settings, lookups) ==
    IF env.client
    THEN VerifyOtsClient(ots_bytes, hash_hex, outcome, settings, lookups)
    ELSE VerifyOtsCore(ots_bytes, hash_hex, env, upgrades, settings, lookups)

(***************************************************************************)
(* evidence_repo.py and storage_service.py.  The store maps a hash to its  *)
(* row (exists = FALSE when there is none), files maps a path to a file.   *)
(* A path is [hash, ext]; NoPath is None.                                  *)
(***************************************************************************)
NoPath == [hash |-> <<>>, ext |-> ""]

PathOf(hash_value, ext) == [hash |-> hash_value, ext |-> ext]

NoRecord ==
    [exists |-> FALSE, ots_status |-> "", tsa_status |-> "",
     ots_path |-> NoPath, tsa_path |-> NoPath]

NoFile == [exists |-> FALSE, content |-> <<>>]

\* fetch_by_hash
FetchByHash(store, hash_value) == store[hash_value]

\* insert_or_ignore
InsertOrIgnore(store, hash_value, ots_status, tsa_status, ots_path, tsa_path) ==
    IF store[hash_value].exists THEN store
    ELSE [store EXCEPT ![hash_value] =
             [exists |-> TRUE, ots_status |-> ots_status, tsa_status |-> tsa_status,
              ots_path |-> ots_path, tsa_path |-> tsa_path]]

\* update_statuses with an UPDATE that sets the paths and leaves the
\* statuses of the row
UpdateStatusesKeepsStatuses(store, hash_value, ots_status, tsa_status, ots_path, tsa_path) ==
    IF ~store[hash_value].exists THEN store
    ELSE [store EXCEPT ![hash_value].ots_path = ots_path,
                       ![hash_value].tsa_path = tsa_path]

\* update_statuses
UpdateStatuses(store, hash_value, ots_status, tsa_status, ots_path, tsa_path) ==
    IF ~store[hash_value].exists THEN store
    ELSE [store EXCEPT ![hash_value] =
             [exists |-> TRUE, ots_status |-> ots_status, tsa_status |-> tsa_status,
              ots_path |-> ots_path, tsa_path |-> tsa_path]]

\* delete_by_hash
DeleteByHash(store, hash_value) == [store EXCEPT ![hash_value] = NoRecord]

\* read_file: <<>> is None (and the content of an empty file)
ReadFile(files, path) ==
    IF path = NoPath THEN <<>>
    ELSE IF ~files[path].exists THEN <<>>
    ELSE files[path].content

\* save_ots_file, save_tsa_file: the files after the write
SaveFile(files, hash_value, ext, content) ==
    [files EXCEPT ![PathOf(hash_value, ext)] = [exists |-> TRUE, content |-> content]]

\* delete_evidence_files
DeleteEvidenceFiles(files, hash_value) ==
    [p \in DOMAIN files |-> IF p.hash = hash_value THEN NoFile ELSE files[p]]

(***************************************************************************)
(* evidence_service.py.  The creation and verification calls are given as  *)
(* what create_ots, create_tsa, verify_ots and verify_tsa return.          *)
(***************************************************************************)
EvidenceResult(hash_value, ots_status, tsa_status, ots_error, tsa_error, tsa_info, record, saved, ots_bytes, tsa_bytes) ==
    [hash_value |-> hash_value, ots_status |-> ots_status, tsa_status |-> tsa_status,
     ots_error |-> ots_error, tsa_error |-> tsa_error, tsa_info |-> tsa_info,
     record |-> record, saved |-> saved, ots_bytes |-> ots_bytes,
     tsa_bytes |-> tsa_bytes]

\* lines 55-107: process_submission with save_record
\* lines 77-82 with every stored status taken as not success
StatusKeptNever(status, files, path) == FALSE

\* lines 77-82 without the read_file of lines 77 and 79
StatusKeptWithoutFile(status, files, path) == status = "success"

\* lines 77-82: the stored status is success and its file holds bytes, so
\* the protocol is not created again
StatusKept(status, files, path) == status = "success" /\ ReadFile(files, path) # <<>>

ProcessSaved(store, files, hash_value, ots_enabled, tsa_enabled, ots_result, tsa_result) ==
    LET found == FetchByHash(store, hash_value)
        inserted == IF found.exists THEN store
                    ELSE InsertOrIgnore(store, hash_value, "pending", "pending",
                                        NoPath, NoPath)
        existing == FetchByHash(inserted, hash_value)
        ots_kept == StatusKept(existing.ots_status, files, existing.ots_path)
        tsa_kept == StatusKept(existing.tsa_status, files, existing.tsa_path)
        ots_create == ~ots_kept /\ ots_enabled
        tsa_create == ~tsa_kept /\ tsa_enabled
        ots_saved == ots_create /\ ots_result.success /\ ots_result.ots_bytes # <<>>
        tsa_saved == tsa_create /\ tsa_result.success /\ tsa_result.tsr_bytes # <<>>
        ots_status == IF ots_kept THEN "success"
                      ELSE IF ots_enabled THEN StatusFromResult(ots_result.success)
                      ELSE "disabled"
        tsa_status == IF tsa_kept THEN "success"
                      ELSE IF tsa_enabled THEN StatusFromResult(tsa_result.success)
                      ELSE "disabled"
        ots_path == IF ots_saved THEN PathOf(hash_value, "ots") ELSE existing.ots_path
        tsa_path == IF tsa_saved THEN PathOf(hash_value, "tsr") ELSE existing.tsa_path
        files_ots == IF ots_saved
                     THEN SaveFile(files, hash_value, "ots", ots_result.ots_bytes)
                     ELSE files
        files_tsa == IF tsa_saved
                     THEN SaveFile(files_ots, hash_value, "tsr", tsa_result.tsr_bytes)
                     ELSE files_ots
        updated == UpdateStatuses(inserted, hash_value, ots_status, tsa_status,
                                  ots_path, tsa_path)
    IN  [store |-> updated,
         files |-> files_tsa,
         created |-> (IF ots_create THEN {"ots"} ELSE {})
                         \cup (IF tsa_create THEN {"tsa"} ELSE {}),
         result |->
             EvidenceResult(hash_value, ots_status, tsa_status,
                 IF ots_kept THEN NoError
                 ELSE IF ots_enabled THEN ots_result.error ELSE <<"ots disabled">>,
                 IF tsa_kept THEN NoError
                 ELSE IF tsa_enabled THEN tsa_result.error ELSE <<"tsa disabled">>,
                 IF tsa_create THEN tsa_result.info ELSE {},
                 FetchByHash(updated, hash_value), TRUE, <<>>, <<>>)]

\* lines 108-134: process_submission without save_record
ProcessInline(store, files, hash_value, ots_enabled, tsa_enabled, ots_result, tsa_result) ==
    [store |-> store,
     files |-> files,
     created |-> (IF ots_enabled THEN {"ots"} ELSE {})
                     \cup (IF tsa_enabled THEN {"tsa"} ELSE {}),
     result |->
         EvidenceResult(hash_value,
             IF ots_enabled THEN StatusFromResult(ots_result.success) ELSE "disabled",
             IF tsa_enabled THEN StatusFromResult(tsa_result.success) ELSE "disabled",
             IF ots_enabled THEN ots_result.error ELSE <<"ots disabled">>,
             IF tsa_enabled THEN tsa_result.error ELSE <<"tsa disabled">>,
             IF tsa_enabled THEN tsa_result.info ELSE {},
             NoRecord, FALSE,
             IF ots_enabled /\ ots_result.success THEN ots_result.ots_bytes ELSE <<>>,
             IF tsa_enabled /\ tsa_result.success THEN tsa_result.tsr_bytes ELSE <<>>)]

\* process_submission with a failed creation reported as disabled
ProcessSubmissionFailureAsDisabled(store, files, hash_value, ots_enabled, tsa_enabled, save_record, ots_result, tsa_result) ==
    LET out == IF save_record
               THEN ProcessSaved(store, files, hash_value, ots_enabled, tsa_enabled,
                                 ots_result, tsa_result)
               ELSE ProcessInline(store, files, hash_value, ots_enabled, tsa_enabled,
                                  ots_result, tsa_result)
    IN  [out EXCEPT
            !.result.ots_status = IF @ = "failed" THEN "disabled" ELSE @,
            !.result.tsa_status = IF @ = "failed" THEN "disabled" ELSE @]

\* process_submission taking the save_record branch whatever the flag
ProcessSubmissionAlwaysSaves(store, files, hash_value, ots_enabled, tsa_enabled, save_record, ots_result, tsa_result) ==
    ProcessSaved(store, files, hash_value, ots_enabled, tsa_enabled, ots_result, tsa_result)

\* process_submission: [store, files, created, result]; created names the
\* protocols whose creation operation was called
ProcessSubmission(store, files, hash_value, ots_enabled, tsa_enabled, save_record, ots_result, tsa_result) ==
    IF save_record
    THEN ProcessSaved(store, files, hash_value, ots_enabled, tsa_enabled,
                      ots_result, tsa_result)
    ELSE ProcessInline(store, files, hash_value, ots_enabled, tsa_enabled,
                       ots_result, tsa_result)

\* one protocol's part of the answer of verify_submission
ProtocolInfo(success, error, info) == [success |-> success, error |-> error, info |-> info]

\* lines 170-185: the proof bytes verify_submission verifies; <<>> when none
OtsBytesToVerify(store, files, hash_value, ots_bytes_override) ==
    IF ots_bytes_override = <<>> /\ FetchByHash(store, hash_value).exists
    THEN ReadFile(files, FetchByHash(store, hash_value).ots_path)
    ELSE ots_bytes_override

\* lines 187-199
TsrBytesToVerify(store, files, hash_value, tsr_bytes_override) ==
    IF tsr_bytes_override = <<>> /\ FetchByHash(store, hash_value).exists
    THEN ReadFile(files, FetchByHash(store, hash_value).tsa_path)
    ELSE tsr_bytes_override

\* verify_submission that stores the outcome of the verification as the
\* statuses of the record
VerifySubmissionStoresOutcome(store, files, hash_value, ots_enabled, tsa_enabled, ots_bytes_override, tsr_bytes_override, ots_result, tsa_result) ==
    [store |-> UpdateStatuses(store, hash_value,
                              StatusFromResult(ots_result.success),
                              StatusFromResult(tsa_result.success),
                              FetchByHash(store, hash_value).ots_path,
                              FetchByHash(store, hash_value).tsa_path),
     files |-> files,
     response |-> [hash |-> hash_value,
                   exists |-> FetchByHash(store, hash_value).exists,
                   record |-> FetchByHash(store, hash_value),
                   ots |-> ProtocolInfo(ots_result.success, ots_result.error,
                                        ots_result.info),
                   tsa |-> ProtocolInfo(tsa_result.success, tsa_result.error,
                                        tsa_result.info)]]

\* verify_submission: [store, files, response]; ots_result and tsa_result are what
\* verify_ots and verify_tsa return for the bytes above
\* lines 177-179 writing the bytes that were verified when the result holds
\* no updated bytes
VerifySubmissionWritesVerified(store, files, hash_value, ots_enabled, tsa_enabled, ots_bytes_override, tsr_bytes_override, ots_result, tsa_result) ==
    LET record == FetchByHash(store, hash_value)
        ots_bytes == OtsBytesToVerify(store, files, hash_value, ots_bytes_override)
        rewrite == /\ ots_enabled
                   /\ ots_bytes # <<>>
                   /\ record.exists
                   /\ record.ots_path # NoPath
    IN  [store |-> store,
         files |-> IF rewrite
                   THEN [files EXCEPT ![record.ots_path] =
                            [exists |-> TRUE,
                             content |-> IF ots_result.updated_ots_bytes # <<>>
                                         THEN ots_result.updated_ots_bytes
                                         ELSE ots_bytes]]
                   ELSE files,
         response |-> [hash |-> hash_value, exists |-> record.exists, record |-> record,
                       ots |-> ProtocolInfo(ots_result.success, ots_result.error,
                                            ots_result.info),
                       tsa |-> ProtocolInfo(tsa_result.success, tsa_result.error,
                                            tsa_result.info)]]

VerifySubmission(store, files, hash_value, ots_enabled, tsa_enabled, ots_bytes_override, tsr_bytes_override, ots_result, tsa_result) ==
    LET record == FetchByHash(store, hash_value)
        ots_bytes == OtsBytesToVerify(store, files, hash_value, ots_bytes_override)
        tsr_bytes == TsrBytesToVerify(store, files, hash_value, tsr_bytes_override)
        rewrite == /\ ots_enabled
                   /\ ots_bytes # <<>>
                   /\ record.exists
                   /\ ots_result.updated_ots_bytes # <<>>
                   /\ record.ots_path # NoPath
    IN  [store |-> store,
         files |-> IF rewrite
                   THEN [files EXCEPT ![record.ots_path] =
                            [exists |-> TRUE, content |-> ots_result.updated_ots_bytes]]
                   ELSE files,
         response |->
            [hash |-> hash_value,
             exists |-> record.exists,
             record |-> record,
             ots |-> IF ~ots_enabled
                     THEN ProtocolInfo(FALSE, <<"ots disabled">>, NoInfo)
                     ELSE IF ots_bytes # <<>>
                     THEN ProtocolInfo(ots_result.success, ots_result.error, ots_result.info)
                     ELSE IF ~record.exists
                     THEN ProtocolInfo(FALSE, <<"ots file required when record missing">>,
                                       NoInfo)
                     ELSE ProtocolInfo(FALSE, <<"ots file missing">>, NoInfo),
             tsa |-> IF ~tsa_enabled
                     THEN ProtocolInfo(FALSE, <<"tsa disabled">>, {})
                     ELSE IF tsr_bytes # <<>>
                     THEN ProtocolInfo(tsa_result.success, tsa_result.error, tsa_result.info)
                     ELSE IF ~record.exists
                     THEN ProtocolInfo(FALSE, <<"tsa file required when record missing">>, {})
                     ELSE ProtocolInfo(FALSE, <<"tsa file missing">>, {})]]

\* delete_evidence: [store, files, deleted]
\* delete_evidence with delete_evidence_files called before the record is
\* looked for and whatever keep_files says
DeleteEvidenceFilesFirst(store, files, hash_value, keep_files) ==
    [store |-> DeleteByHash(store, hash_value),
     files |-> DeleteEvidenceFiles(files, hash_value),
     deleted |-> FetchByHash(store, hash_value).exists]

DeleteEvidence(store, files, hash_value, keep_files) ==
    IF ~FetchByHash(store, hash_value).exists
    THEN [store |-> store, files |-> files, deleted |-> FALSE]
    ELSE [store |-> DeleteByHash(store, hash_value),
          files |-> IF keep_files THEN files ELSE DeleteEvidenceFiles(files, hash_value),
          deleted |-> TRUE]

(***************************************************************************)
(* The proofs, calendars and lookups given to the proof service.           *)
(***************************************************************************)
OtsDigests == {<<65, 171>>, <<171, 65>>}

OtherDigest(d) == IF d = <<65, 171>> THEN <<171, 65>> ELSE <<65, 171>>

\* hash_hex as callers give it: absent, the hex of a digest, or not hex
OtsHashInputs == {<<>>, <<122, 122>>} \cup {ToHex(d) : d \in OtsDigests}

CalendarUrls == {1, 2}

\* the calendar lists of at most MaxCalendars entries
CalendarLists == SeqsUpTo(CalendarUrls, MaxCalendars)

\* the operation a calendar applies to what it is sent
CalOp(url) == 239 + url

\* what a calendar returns at submission: its operation, then a promise
PendingBranch(msg, url) ==
    Via(msg, CalOp(url), Leaf(Append(msg, CalOp(url)), Att(TagPending, url)))

\* a sha256 step below msg that ends in a block header
AnchorBelow(msg, tag, height) ==
    Via(msg, OpSHA256, Leaf(Append(msg, OpSHA256), Att(tag, height)))

AnchorBranch(msg, url, tag, height) ==
    Via(msg, CalOp(url), AnchorBelow(Append(msg, CalOp(url)), tag, height))

\* what the i-th calendar gives for a submitted digest
CalendarAnswerKinds == {"raise", "pending", "wrong"}

CalendarAnswer(kind, digest, url) ==
    IF kind = "raise" THEN CalRaise
    ELSE IF kind = "pending" THEN CalTs(PendingBranch(digest, url))
    ELSE CalTs(PendingBranch(Append(digest, 0), url))

\* a tree that reaches one message by two paths (240 then 241, and 242),
\* the node at the end of each holding the promise of the calendar
TwoPathBranch(d, url) ==
    MergeSame(Via(d, 240, Via(Append(d, 240), 241,
                              Leaf(d \o <<240, 241>>, Att(TagPending, url)))),
              Via(d, 242, Leaf(d \o <<240, 241>>, Att(TagPending, url))))

\* the proof trees for a digest: promises, anchors (two of them of the same
\* chain and height), both, an attestation of a kind the library does not
\* know, and a promise reached by two paths
ProofTrees(d) ==
    {PendingBranch(d, 1),
     MergeSame(PendingBranch(d, 1), PendingBranch(d, 2)),
     AnchorBranch(d, 1, TagBitcoin, 7),
     MergeSame(AnchorBranch(d, 1, TagBitcoin, 7), AnchorBranch(d, 2, TagBitcoin, 7)),
     MergeSame(AnchorBranch(d, 1, TagBitcoin, 7), AnchorBranch(d, 2, TagLitecoin, 9)),
     MergeSame(PendingBranch(d, 1), AnchorBranch(d, 2, TagBitcoin, 7)),
     MergeSame(PendingBranch(d, 2), Leaf(d, Att(TagUnknown, 3))),
     Leaf(d, Att(TagUnknown, 3)),
     TwoPathBranch(d, 1)}

AllProofTrees == UNION {ProofTrees(d) : d \in OtsDigests}

\* the bytes given to verify_ots: proofs in the format the loaded library
\* reads, and proofs that lost their last byte
ProofInputs(env) ==
    IF env.client
    THEN {SerializeBare(t) : t \in AllProofTrees}
             \cup {SubSeq(SerializeBare(t), 1, Len(SerializeBare(t)) - 1) :
                      t \in ProofTrees(<<65, 171>>)}
    ELSE {SerializeDetached(OpSHA256, t) : t \in AllProofTrees}
             \cup {SubSeq(SerializeDetached(OpSHA256, t), 1,
                          Len(SerializeDetached(OpSHA256, t)) - 1) :
                      t \in ProofTrees(<<65, 171>>)}

\* what ots_verify of a client gives
VerifyOutcomes == {"none", "value", "raise"}

\* what the calendar of a pending attestation gives at upgrade
UpgradeAnswerKinds == {"raise", "anchor", "wrong"}

UpgradeAnswer(kind, node_msg) ==
    IF kind = "raise" THEN CalRaise
    ELSE IF kind = "anchor" THEN CalTs(AnchorBelow(node_msg, TagBitcoin, 7))
    ELSE CalTs(AnchorBelow(Append(node_msg, 0), TagBitcoin, 7))

\* the upgrade answers for the pending attestations of a tree
UpgradesFor(timestamp, kinds) ==
    LET pending == CollectPendingAttestations(timestamp) IN
    [i \in 1..Len(pending) |-> UpgradeAnswer(kinds[i], pending[i].msg)]

ApiAnswers ==
    {ApiAnswer("raise", ""), ApiAnswer("status", ""), ApiAnswer("empty", ""),
     ApiAnswer("text", "00aa"), ApiAnswer("data_hash", "00bb"),
     ApiAnswer("hash", "00cc"), ApiAnswer("json", "")}

AnchorKeys == {<<"bitcoin", 7>>, <<"litecoin", 9>>}

\* the anchors of a tree, as the keys of the lookups
KeysOf(timestamp) ==
    LET all == AllAttestations(timestamp) IN
    {<<ChainOf(all[i].att), all[i].att.val>> :
        i \in {j \in 1..Len(all) : ChainOf(all[j].att) # ""}}

\* lookups for the keys asked, the others answered with text
LookupsFor(asked) ==
    [k \in AnchorKeys |-> IF k \in DOMAIN asked THEN asked[k] ELSE ApiAnswer("text", "00aa")]

SettingsChoices ==
    {DefaultSettings,
     [DefaultSettings EXCEPT !.api = [c \in Chains |-> FALSE]],
     [DefaultSettings EXCEPT !.block_url = [c \in Chains |-> FALSE]],
     [DefaultSettings EXCEPT !.height_url = [c \in Chains |-> FALSE]],
     [DefaultSettings EXCEPT !.block_url = [c \in Chains |-> FALSE],
                             !.height_url = [c \in Chains |-> FALSE]]}

(***************************************************************************)
(* app/utils/session.py: the map of sessions.  A token that is not a key   *)
(* of _SESSIONS maps to NoSession.                                         *)
(***************************************************************************)
SESSION_TTL_SECONDS == 43200

Tokens == {"t1", "t2"}

\* None and the empty cookie are the tokens that "not token" rejects
NoSessionToken == ""

TokenInputs == Tokens \cup {NoSessionToken}

Users == {"alice", "bob"}

\* the instants at which the clock is read
Times ==
    {0, 1, SESSION_TTL_SECONDS, SESSION_TTL_SECONDS + 1, SESSION_TTL_SECONDS + 2,
     2 * SESSION_TTL_SECONDS + 2}

NoSession == [exists |-> FALSE, expires_at |-> 0, user |-> ""]

NoSessRet ==
    [op |-> "none", token |-> NoSessionToken, at |-> 0,
     before |-> [t \in Tokens |-> NoSession], result |-> NoSession]

\* create_session with the token drawn and the clock read
CreateSession(map, token, username, t) ==
    [token |-> token,
     sessions |-> [map EXCEPT ![token] = [exists |-> TRUE,
                                          expires_at |-> t + SESSION_TTL_SECONDS,
                                          user |-> username]]]

\* get_session without the test of line 21
GetSessionWithoutExpiryTest(map, token, t) ==
    IF token = NoSessionToken THEN [result |-> NoSession, sessions |-> map]
    ELSE [result |-> map[token], sessions |-> map]

\* get_session: the session returned (NoSession for None) and the map after
GetSession(map, token, t) ==
    IF token = NoSessionToken THEN [result |-> NoSession, sessions |-> map]
    ELSE IF ~map[token].exists THEN [result |-> NoSession, sessions |-> map]
    ELSE IF map[token].expires_at < t
    THEN [result |-> NoSession, sessions |-> [map EXCEPT ![token] = NoSession]]
    ELSE [result |-> map[token], sessions |-> map]

\* delete_session that leaves the entry in the map
DeleteSessionKeepsEntry(map, token) == map

\* delete_session
DeleteSession(map, token) ==
    IF token = NoSessionToken THEN map ELSE [map EXCEPT ![token] = NoSession]

(***************************************************************************)
(* process_submission with save_record, statement by statement, for calls  *)
(* that run at the same time: the local variables of one call.             *)
(***************************************************************************)
Callers == {1, 2}

NoLocals ==
    [pc |-> "idle", ots_enabled |-> FALSE, tsa_enabled |-> FALSE,
     ots_status |-> "", tsa_status |-> "", ots_path |-> NoPath, tsa_path |-> NoPath,
     ots_created |-> FALSE, tsa_created |-> FALSE, record |-> NoRecord]

(***************************************************************************)
(* app/api/routes.py: what a route answers.  status 200 with a body, or    *)
(* the HTTPException raised; created names the protocols whose creation    *)
(* was requested, content is the file a download sends.                    *)
(***************************************************************************)
HttpResponse(status, detail) ==
    [status |-> status, detail |-> detail, created |-> {}, content |-> <<>>,
     inline |-> [ots |-> <<>>, tsa |-> <<>>], saved |-> FALSE]

NoResponse == HttpResponse(0, "")

\* (option or "enable").lower() for the values a form sends
OptionValues == {"", "Disable"}

LowerOption(option) ==
    IF option = "" THEN "enable" ELSE IF option = "Disable" THEN "disable" ELSE option

OptionEnabled(option) == LowerOption(option) # "disable"

\* require_login: the session of the cookie or 403, and the map after
RequireLogin(map, cookie, t) ==
    LET got == GetSession(map, cookie, t) IN
    [response |-> IF got.result.exists THEN HttpResponse(200, "")
                  ELSE HttpResponse(403, "forbidden"),
     session |-> got.result,
     sessions |-> got.sessions]

\* settings.basic_auth_user
BasicAuthUser == "admin"

\* login: 401 unless the user and the password are the configured ones
Login(map, username, password_ok, token, t) ==
    IF ~(username = BasicAuthUser /\ password_ok)
    THEN [response |-> HttpResponse(401, "unauthorized"), sessions |-> map]
    ELSE [response |-> HttpResponse(200, ""),
          sessions |-> CreateSession(map, token, username, t).sessions]

\* logout
Logout(map, cookie) ==
    [response |-> HttpResponse(200, ""), sessions |-> DeleteSession(map, cookie)]

\* upload_evidence with the test of line 95 after process_submission
UploadEvidenceSavesFirst(map, t, store, files, hash_value, ots_option, tsa_option, save_option, cookie, ots_result, tsa_result) ==
    LET got == GetSession(map, cookie, t)
        out == ProcessSubmission(store, files, hash_value, OptionEnabled(ots_option),
                                 OptionEnabled(tsa_option), OptionEnabled(save_option),
                                 ots_result, tsa_result)
    IN  IF hash_value = <<>>
        THEN [response |-> HttpResponse(400, "hash is required"),
              sessions |-> map, store |-> store, files |-> files]
        ELSE [response |->
                 IF OptionEnabled(save_option) /\ ~got.result.exists
                 THEN [HttpResponse(403, "login required to save") EXCEPT
                          !.created = out.created]
                 ELSE [HttpResponse(200, "") EXCEPT !.created = out.created],
              sessions |-> got.sessions, store |-> out.store, files |-> out.files]

\* upload_evidence: [response, sessions, store, files]; get_session is
\* called only when saving is asked for
UploadEvidence(map, t, store, files, hash_value, ots_option, tsa_option, save_option, cookie, ots_result, tsa_result) ==
    LET ots_enabled == OptionEnabled(ots_option)
        tsa_enabled == OptionEnabled(tsa_option)
        save_enabled == OptionEnabled(save_option)
        got == GetSession(map, cookie, t)
        out == ProcessSubmission(store, files, hash_value, ots_enabled, tsa_enabled,
                                 save_enabled, ots_result, tsa_result)
    IN  IF hash_value = <<>>
        THEN [response |-> HttpResponse(400, "hash is required"),
              sessions |-> map, store |-> store, files |-> files]
        ELSE IF save_enabled /\ ~got.result.exists
        THEN [response |-> HttpResponse(403, "login required to save"),
              sessions |-> got.sessions, store |-> store, files |-> files]
        ELSE IF ~ots_enabled /\ ~tsa_enabled
        THEN [response |-> HttpResponse(400, "at least one option required"),
              sessions |-> map, store |-> store, files |-> files]
        ELSE [response |->
                 [HttpResponse(200, "") EXCEPT
                     !.created = out.created,
                     !.saved = out.result.saved,
                     !.inline = IF out.result.saved THEN @
                                ELSE [ots |-> B64Encode(out.result.ots_bytes),
                                      tsa |-> B64Encode(out.result.tsa_bytes)]],
              sessions |-> map, store |-> out.store, files |-> out.files]

\* _file_response
FileResponse(files, path) ==
    IF path = NoPath \/ ~files[path].exists THEN HttpResponse(404, "file not found")
    ELSE [HttpResponse(200, "") EXCEPT !.content = files[path].content]

\* download_ots, download_tsa without the test of the status
DownloadWhateverStatus(store, files, hash_value, protocol) ==
    LET record == FetchByHash(store, hash_value) IN
    IF ~record.exists THEN HttpResponse(404, "record not found")
    ELSE FileResponse(files, IF protocol = "ots" THEN record.ots_path ELSE record.tsa_path)

\* download_ots, download_tsa
Download(store, files, hash_value, protocol) ==
    LET record == FetchByHash(store, hash_value)
        status == IF protocol = "ots" THEN record.ots_status ELSE record.tsa_status
        path == IF protocol = "ots" THEN record.ots_path ELSE record.tsa_path
    IN  IF ~record.exists THEN HttpResponse(404, "record not found")
        ELSE IF status # "success"
        THEN HttpResponse(403, IF protocol = "ots" THEN "ots file not available"
                               ELSE "tsa file not available")
        ELSE FileResponse(files, path)

(***************************************************************************)
(* State.  Each service serves one call at a time: its _call variable      *)
(* holds the arguments and the environment of the call being served, its   *)
(* _ret variable what the call returned.  store and files are the evidence *)
(* table and the proof files.                                              *)
(***************************************************************************)
VARIABLES tsa_pc, tsa_call, tsa_ret, ots_pc, ots_call, ots_ret,
          store, files, ev_pc, ev_call, ev_ret,
          sessions, now, issued, sess_ret, calls

tsaVars == <<tsa_pc, tsa_call, tsa_ret>>

otsVars == <<ots_pc, ots_call, ots_ret>>

evVars == <<store, files, ev_pc, ev_call, ev_ret>>

\* _SESSIONS, the clock read by time.time(), the user each token was last
\* issued to, and what the last call of the session module returned
sessVars == <<sessions, now, issued, sess_ret>>

\* the two process_submission calls that run at the same time: where each
\* is and its local variables
raceVars == <<calls>>

vars == <<tsa_pc, tsa_call, tsa_ret, ots_pc, ots_call, ots_ret,
          store, files, ev_pc, ev_call, ev_ret,
          sessions, now, issued, sess_ret, calls>>

NoCall ==
    [op |-> "none", t |-> [kind |-> "tsr", imprint |-> <<>>], form |-> "der",
     bytes |-> <<>>, hash_hex |-> <<>>, lib |-> LibFull, url_set |-> FALSE,
     response |-> RespNone]

NoRet ==
    [result |-> TSAResult(FALSE, NoError, {}, <<>>),
     dec |-> DecodeErr(NoError, <<>>), attempts |-> <<>>]

NoOtsCall ==
    [op |-> "none", hash_hex |-> <<>>, env |-> [client |-> FALSE, core |-> TRUE],
     calendars |-> <<>>, answers |-> <<>>, stamp |-> CalRaise, ots_bytes |-> <<>>,
     outcome |-> "none", upgrades |-> <<>>, settings |-> DefaultSettings,
     lookups |-> LookupsFor(NoCache)]

NoOtsRet ==
    [result |-> OTSResult(FALSE, NoError, NoInfo, <<>>, <<>>), net |-> <<>>,
     tree |-> Timestamp(<<>>)]

\* the digests submitted as evidence; uploads may carry proofs of another
EvHashes == {ToHex(<<65, 171>>)}

EvPaths == {PathOf(h, ext) : h \in EvHashes, ext \in {"ots", "tsr"}}

NoEvCall ==
    [op |-> "none", hash_value |-> <<>>, ots_enabled |-> FALSE, tsa_enabled |-> FALSE,
     save_record |-> FALSE, keep_files |-> FALSE, ots_bytes_override |-> <<>>,
     tsr_bytes_override |-> <<>>, response |-> RespNone, answers |-> <<>>,
     upgrades |-> <<>>, store |-> [h \in EvHashes |-> NoRecord],
     files |-> [p \in EvPaths |-> NoFile],
     cookie |-> NoSessionToken, ots_option |-> "", tsa_option |-> "",
     save_option |-> "", protocol |-> "", sessions |-> [t \in Tokens |-> NoSession],
     at |-> 0, ots_result |-> OTSResult(FALSE, NoError, NoInfo, <<>>, <<>>),
     tsa_result |-> TSAResult(FALSE, NoError, {}, <<>>)]

NoEvRet ==
    [result |-> EvidenceResult(<<>>, "", "", NoError, NoError, {}, NoRecord, FALSE,
                               <<>>, <<>>),
     created |-> {},
     response |-> [hash |-> <<>>, exists |-> FALSE, record |-> NoRecord,
                   ots |-> ProtocolInfo(FALSE, NoError, NoInfo),
                   tsa |-> ProtocolInfo(FALSE, NoError, {})],
     ots |-> OTSResult(FALSE, NoError, NoInfo, <<>>, <<>>),
     tsa |-> TSAResult(FALSE, NoError, {}, <<>>),
     deleted |-> FALSE,
     http |-> NoResponse]

TsaInit ==
    /\ tsa_pc = "idle"
    /\ tsa_call = NoCall
    /\ tsa_ret = NoRet

OtsInit ==
    /\ ots_pc = "idle"
    /\ ots_call = NoOtsCall
    /\ ots_ret = NoOtsRet

EvInit ==
    /\ store = [h \in EvHashes |-> NoRecord]
    /\ files = [p \in EvPaths |-> NoFile]
    /\ ev_pc = "idle"
    /\ ev_call = NoEvCall
    /\ ev_ret = NoEvRet

SessInit ==
    /\ sessions = [t \in Tokens |-> NoSession]
    /\ now = 0
    /\ issued = [t \in Tokens |-> ""]
    /\ sess_ret = NoSessRet

RaceInit == calls = [c \in Callers |-> NoLocals]

Init == TsaInit /\ OtsInit /\ EvInit /\ SessInit /\ RaceInit

\* a caller runs _decode_tsa_response(decoder, tsr_bytes)
TsaDecode ==
    /\ tsa_pc = "idle"
    /\ \E t \in Structures, form \in Forms :
          LET b == Encode(form, t) IN
          /\ tsa_call' = [NoCall EXCEPT !.op = "decode", !.t = t, !.form = form,
                                        !.bytes = b]
          /\ tsa_ret' = [NoRet EXCEPT !.dec = DecodeTsaResponse(b),
                                      !.attempts = DecodeTsaResponse(b).attempts]
    /\ tsa_pc' = "returned"
    /\ UNCHANGED <<otsVars, evVars, sessVars, raceVars>>

\* verify_tsa(tsr_bytes, hash_hex)
TsaVerify ==
    /\ tsa_pc = "idle"
    /\ \E t \in Structures, form \in Forms, h \in HashInputs, lib \in Libs :
          LET b == Encode(form, t) IN
          /\ tsa_call' = [NoCall EXCEPT !.op = "verify", !.t = t, !.form = form,
                                        !.bytes = b, !.hash_hex = h, !.lib = lib]
          /\ tsa_ret' = [NoRet EXCEPT !.result = VerifyTsa(b, h, lib),
                                      !.attempts = ExtractTsaInfo(b, lib).attempts]
    /\ tsa_pc' = "returned"
    /\ UNCHANGED <<otsVars, evVars, sessVars, raceVars>>

\* create_tsa(hash_hex, tsa_url); the authority answers with any byte string,
\* with nothing, or the request fails
TsaCreate ==
    /\ tsa_pc = "idle"
    /\ \E h \in HashInputs \ {<<>>}, lib \in Libs, url_set \in BOOLEAN,
          response \in {RespRaise, RespNone}
                          \cup {RespBytes(Encode(form, t)) : form \in Forms, t \in Structures} :
          /\ tsa_call' = [NoCall EXCEPT !.op = "create", !.hash_hex = h, !.lib = lib,
                                        !.url_set = url_set, !.response = response,
                                        !.bytes = ResponseToBytes(response)]
          /\ tsa_ret' = [NoRet EXCEPT
                            !.result = CreateTsa(h, url_set, lib, response),
                            !.attempts =
                                IF url_set /\ lib.import /\ FromHex(h).ok
                                   /\ ResponseToBytes(response) # <<>>
                                THEN ExtractTsaInfo(ResponseToBytes(response), lib).attempts
                                ELSE <<>>]
    /\ tsa_pc' = "returned"
    /\ UNCHANGED <<otsVars, evVars, sessVars, raceVars>>

\* the caller takes the result; the service keeps nothing between calls
TsaReturn ==
    /\ tsa_pc = "returned"
    /\ tsa_pc' = "idle"
    /\ tsa_call' = NoCall
    /\ tsa_ret' = NoRet
    /\ UNCHANGED <<otsVars, evVars, sessVars, raceVars>>

TsaNext == TsaDecode \/ TsaVerify \/ TsaCreate \/ TsaReturn

SpecTsa == Init /\ [][TsaNext]_vars

\* create_ots(hash_hex, calendars): every calendar of the list answers with
\* a failure, with its promise for the digest, or with a timestamp of
\* another message; a client, when one loads, stamps or fails
OtsCreate ==
    /\ ots_pc = "idle"
    /\ \E h \in OtsHashInputs \ {<<>>}, env \in OtsEnvs, calendars \in CalendarLists :
       \E kinds \in [1..Len(calendars) ->
                        IF env.client THEN {"raise"} ELSE CalendarAnswerKinds],
          stamp_kind \in IF env.client THEN {"raise", "pending"} ELSE {"raise"} :
       \E answers \in {[i \in 1..Len(calendars) |->
                           CalendarAnswer(kinds[i], FromHex(h).val, calendars[i])]},
          stamp \in {CalendarAnswer(stamp_kind, FromHex(h).val, 1)} :
       \E out \in {CreateOts(h, calendars, env, stamp, answers)} :
          /\ ots_call' = [NoOtsCall EXCEPT !.op = "create", !.hash_hex = h,
                                           !.env = env, !.calendars = calendars,
                                           !.answers = answers, !.stamp = stamp]
          /\ ots_ret' = [result |-> out.result, net |-> out.net, tree |-> out.tree]
    /\ ots_pc' = "returned"
    /\ UNCHANGED <<tsaVars, evVars, sessVars, raceVars>>

\* the tree the loaded library reads from the bytes; an empty one when it
\* reads none
TreeOf(ots_bytes, env) ==
    IF env.client THEN DeserializeBare(ots_bytes).timestamp
    ELSE IF env.core THEN DeserializeDetached(ots_bytes).timestamp
    ELSE Timestamp(<<>>)

\* verify_ots(ots_bytes, hash_hex): the client's verification, every upgrade
\* request and every block-hash lookup answer in any of their ways
OtsVerify ==
    /\ ots_pc = "idle"
    /\ \E env \in OtsEnvs, h \in OtsHashInputs, settings \in SettingsChoices :
       \E b \in ProofInputs(env),
          outcome \in IF env.client THEN VerifyOutcomes ELSE {"none"} :
       \E tree \in {TreeOf(b, env)} :
       \E kinds \in [1..Len(CollectPendingAttestations(tree)) ->
                        IF env.client THEN {"raise"} ELSE UpgradeAnswerKinds] :
       \E upgrades \in {UpgradesFor(tree, kinds)} :
       \E first \in {VerifyOts(b, h, env, outcome, upgrades, settings,
                               LookupsFor(NoCache))} :
       \E asked \in [KeysOf(first.tree) -> ApiAnswers] :
       \E lookups \in {LookupsFor(asked)} :
       \E out \in {VerifyOts(b, h, env, outcome, upgrades, settings, lookups)} :
          /\ ots_call' = [NoOtsCall EXCEPT
                             !.op = "verify", !.hash_hex = h, !.env = env,
                             !.ots_bytes = b, !.outcome = outcome,
                             !.upgrades = upgrades, !.settings = settings,
                             !.lookups = lookups]
          /\ ots_ret' = [result |-> out.result, net |-> out.net, tree |-> out.tree]
    /\ ots_pc' = "returned"
    /\ UNCHANGED <<tsaVars, evVars, sessVars, raceVars>>

\* the caller takes the result
OtsReturn ==
    /\ ots_pc = "returned"
    /\ ots_pc' = "idle"
    /\ ots_call' = NoOtsCall
    /\ ots_ret' = NoOtsRet
    /\ UNCHANGED <<tsaVars, evVars, sessVars, raceVars>>

OtsNext == OtsCreate \/ OtsVerify \/ OtsReturn

SpecOts == Init /\ [][OtsNext]_vars

\* the four service functions called one after the other by one caller
ServicesNext ==
    \/ ots_pc = "idle" /\ TsaNext
    \/ tsa_pc = "idle" /\ OtsNext

SpecServices == Init /\ [][ServicesNext]_vars

\* the calendars of the settings
EvCalendars == <<1>>

\* what the authority gives for a digest: a failure, nothing, bytes that do
\* not decode, the token for the digest, or a token for another digest
AuthorityResponses(digest) ==
    {RespRaise, RespNone, RespBytes(<<0>>),
     RespBytes(Der([kind |-> "tst", imprint |-> digest])),
     RespBytes(Der([kind |-> "tst", imprint |-> OtherDigest(digest)]))}

\* process_submission(conn, files_dir, tsa_url, hash_value, ots_enabled,
\* tsa_enabled, save_record), the calendars and the authority answering in
\* any of their ways
EvProcess ==
    /\ ev_pc = "idle"
    /\ \E hash_value \in EvHashes, ots_enabled \in BOOLEAN, tsa_enabled \in BOOLEAN,
          save_record \in BOOLEAN,
          kinds \in [1..Len(EvCalendars) -> {"raise", "pending"}] :
       \E response \in AuthorityResponses(FromHex(hash_value).val),
          answers \in {[i \in 1..Len(EvCalendars) |->
                           CalendarAnswer(kinds[i], FromHex(hash_value).val,
                                          EvCalendars[i])]} :
       \E ots_result \in {CreateOts(hash_value, EvCalendars,
                                    [client |-> FALSE, core |-> TRUE],
                                    CalRaise, answers).result},
          tsa_result \in {CreateTsa(hash_value, TRUE, LibFull, response)} :
       \E out \in {ProcessSubmission(store, files, hash_value, ots_enabled,
                                     tsa_enabled, save_record, ots_result, tsa_result)} :
          /\ store' = out.store
          /\ files' = out.files
          /\ ev_call' = [NoEvCall EXCEPT
                            !.op = "process", !.hash_value = hash_value,
                            !.ots_enabled = ots_enabled,
                            !.tsa_enabled = tsa_enabled,
                            !.save_record = save_record,
                            !.response = IF "tsa" \in out.created
                                         THEN response ELSE RespNone,
                            !.answers = IF "ots" \in out.created
                                        THEN answers ELSE <<>>,
                            !.store = store, !.files = files]
          /\ ev_ret' = [NoEvRet EXCEPT !.result = out.result,
                                       !.created = out.created]
    /\ ev_pc' = "returned"
    /\ UNCHANGED <<tsaVars, otsVars, sessVars, raceVars>>

\* the proof bytes a caller uploads for verification
\* the proofs a caller uploads: none, a promise for each digest, a promise
\* of another calendar, and one cut short
OtsOverrides ==
    {<<>>} \cup {SerializeDetached(OpSHA256, PendingBranch(d, 1)) : d \in OtsDigests}
           \cup {SerializeDetached(OpSHA256, PendingBranch(<<65, 171>>, 2))}
           \cup {SubSeq(SerializeDetached(OpSHA256, PendingBranch(<<65, 171>>, 1)), 1,
                        Len(SerializeDetached(OpSHA256, PendingBranch(<<65, 171>>, 1))) - 1)}

TsrOverrides ==
    {<<>>} \cup {Der([kind |-> "tst", imprint |-> d]) : d \in OtsDigests}

\* verify_submission(conn, files_dir, hash_value, ots_enabled, tsa_enabled,
\* ots_bytes_override, tsr_bytes_override), every calendar answering the
\* upgrade requests in the same way
EvVerify ==
    /\ ev_pc = "idle"
    /\ \E hash_value \in EvHashes, ots_enabled \in BOOLEAN, tsa_enabled \in BOOLEAN,
          ots_bytes_override \in OtsOverrides, tsr_bytes_override \in TsrOverrides,
          kind \in UpgradeAnswerKinds :
       \E ots_bytes \in {OtsBytesToVerify(store, files, hash_value, ots_bytes_override)},
          tsr_bytes \in {TsrBytesToVerify(store, files, hash_value, tsr_bytes_override)},
          env \in {[client |-> FALSE, core |-> TRUE]} :
       \E tree \in {TreeOf(ots_bytes, env)} :
       \E upgrades \in {UpgradesFor(tree,
                           [i \in 1..Len(CollectPendingAttestations(tree)) |-> kind])} :
       \E ots_result \in {VerifyOts(ots_bytes, hash_value, env, "none", upgrades,
                                    DefaultSettings, LookupsFor(NoCache)).result},
          tsa_result \in {VerifyTsa(tsr_bytes, hash_value, LibFull)} :
       \E out \in {VerifySubmission(store, files, hash_value, ots_enabled,
                                    tsa_enabled, ots_bytes_override,
                                    tsr_bytes_override, ots_result, tsa_result)} :
          /\ store' = out.store
          /\ files' = out.files
          /\ ev_call' = [NoEvCall EXCEPT
                            !.op = "verify", !.hash_value = hash_value,
                            !.ots_enabled = ots_enabled,
                            !.tsa_enabled = tsa_enabled,
                            !.ots_bytes_override = ots_bytes_override,
                            !.tsr_bytes_override = tsr_bytes_override,
                            !.upgrades = IF ots_enabled /\ ots_bytes # <<>>
                                         THEN upgrades ELSE <<>>,
                            !.store = store, !.files = files]
          /\ ev_ret' = [NoEvRet EXCEPT
                           !.response = out.response,
                           !.ots = IF ots_enabled /\ ots_bytes # <<>>
                                   THEN ots_result ELSE NoEvRet.ots,
                           !.tsa = IF tsa_enabled /\ tsr_bytes # <<>>
                                   THEN tsa_result ELSE NoEvRet.tsa]
    /\ ev_pc' = "returned"
    /\ UNCHANGED <<tsaVars, otsVars, sessVars, raceVars>>

\* delete_evidence(conn, files_dir, hash_value, keep_files)
EvDelete ==
    /\ ev_pc = "idle"
    /\ \E hash_value \in EvHashes, keep_files \in BOOLEAN :
          LET out == DeleteEvidence(store, files, hash_value, keep_files) IN
          /\ store' = out.store
          /\ files' = out.files
          /\ ev_call' = [NoEvCall EXCEPT !.op = "delete", !.hash_value = hash_value,
                                         !.keep_files = keep_files,
                                         !.store = store, !.files = files]
          /\ ev_ret' = [NoEvRet EXCEPT !.deleted = out.deleted]
    /\ ev_pc' = "returned"
    /\ UNCHANGED <<tsaVars, otsVars, sessVars, raceVars>>

\* the caller takes the result
EvReturn ==
    /\ ev_pc = "returned"
    /\ ev_pc' = "idle"
    /\ ev_call' = NoEvCall
    /\ ev_ret' = NoEvRet
    /\ UNCHANGED <<store, files, tsaVars, otsVars, sessVars, raceVars>>

\* a proof file is removed from the files directory behind the service
\* (the case lines 77-80 test for)
EvFileLost ==
    /\ ev_pc = "idle"
    /\ \E p \in EvPaths :
          /\ files[p].exists
          /\ files' = [files EXCEPT ![p] = NoFile]
    /\ UNCHANGED <<store, ev_pc, ev_call, ev_ret, tsaVars, otsVars, sessVars, raceVars>>

EvNext == EvProcess \/ EvVerify \/ EvDelete \/ EvFileLost \/ EvReturn

SpecEvidence == Init /\ [][EvNext]_vars

(***************************************************************************)
(* The session module: create_session, get_session, delete_session over    *)
(* the map _SESSIONS, and the passing of time.                             *)
(***************************************************************************)
\* time passes to a later instant
SessTick ==
    /\ \E t \in Times : t > now /\ now' = t
    /\ UNCHANGED <<sessions, issued, sess_ret, tsaVars, otsVars, evVars, raceVars>>

\* create_session(username); token_urlsafe draws the token
SessCreate ==
    /\ \E token \in Tokens, username \in Users :
          \E r \in {CreateSession(sessions, token, username, now)} :
             /\ sessions' = r.sessions
             /\ issued' = [issued EXCEPT ![token] = username]
             /\ sess_ret' = [op |-> "create", token |-> token, at |-> now,
                             before |-> sessions, result |-> NoSession]
    /\ UNCHANGED <<now, tsaVars, otsVars, evVars, raceVars>>

\* get_session(token)
SessGet ==
    /\ \E token \in TokenInputs :
          \E r \in {GetSession(sessions, token, now)} :
             /\ sessions' = r.sessions
             /\ sess_ret' = [op |-> "get", token |-> token, at |-> now,
                             before |-> sessions, result |-> r.result]
    /\ UNCHANGED <<now, issued, tsaVars, otsVars, evVars, raceVars>>

\* delete_session(token)
SessDelete ==
    /\ \E token \in TokenInputs :
          /\ sessions' = DeleteSession(sessions, token)
          /\ sess_ret' = [op |-> "delete", token |-> token, at |-> now,
                          before |-> sessions, result |-> NoSession]
    /\ UNCHANGED <<now, issued, tsaVars, otsVars, evVars, raceVars>>

SessNext == SessTick \/ SessCreate \/ SessGet \/ SessDelete

SpecSessions == Init /\ [][SessNext]_vars

(***************************************************************************)
(* Two process_submission calls with save_record for one digest, each on   *)
(* its own connection.  Every statement that reads or writes the table or  *)
(* a file is one step; the steps of the two calls interleave.              *)
(***************************************************************************)
RaceHash == ToHex(<<65, 171>>)

\* what create_ots gives a call: a failure or the promise of the calendar
RaceOtsResults ==
    {CreateOts(RaceHash, EvCalendars, [client |-> FALSE, core |-> TRUE], CalRaise,
               [i \in 1..Len(EvCalendars) |->
                   CalendarAnswer(kind, FromHex(RaceHash).val, EvCalendars[i])]).result :
        kind \in {"raise", "pending"}}

\* what create_tsa gives a call: a failure or the token for the digest
RaceTsaResults ==
    {CreateTsa(RaceHash, TRUE, LibFull, response) :
        response \in {RespRaise,
                      RespBytes(Der([kind |-> "tst", imprint |-> FromHex(RaceHash).val]))}}

\* lines 55-59 and 61-62: the first fetch_by_hash
RaceFetch ==
    /\ \E c \in Callers, ots_enabled \in BOOLEAN, tsa_enabled \in BOOLEAN :
          /\ calls[c].pc = "idle"
          /\ \E existing \in {FetchByHash(store, RaceHash)} :
                calls' = [calls EXCEPT ![c] =
                    [NoLocals EXCEPT
                        !.pc = IF existing.exists THEN "check" ELSE "insert",
                        !.ots_enabled = ots_enabled,
                        !.tsa_enabled = tsa_enabled,
                        !.ots_status = IF existing.exists THEN existing.ots_status
                                       ELSE "pending",
                        !.tsa_status = IF existing.exists THEN existing.tsa_status
                                       ELSE "pending",
                        !.ots_path = existing.ots_path,
                        !.tsa_path = existing.tsa_path]]
    /\ UNCHANGED <<store, files, ev_pc, ev_call, ev_ret, tsaVars, otsVars, sessVars>>

\* lines 63-72: insert_or_ignore of the pending row
RaceInsert ==
    /\ \E c \in Callers :
          /\ calls[c].pc = "insert"
          /\ store' = InsertOrIgnore(store, RaceHash, "pending", "pending", NoPath, NoPath)
          /\ calls' = [calls EXCEPT ![c].pc = "refetch"]
    /\ UNCHANGED <<files, ev_pc, ev_call, ev_ret, tsaVars, otsVars, sessVars>>

\* lines 73-76: the fetch after the insert gives the paths
RaceRefetch ==
    /\ \E c \in Callers :
          /\ calls[c].pc = "refetch"
          /\ \E existing \in {FetchByHash(store, RaceHash)} :
                calls' = [calls EXCEPT ![c].pc = "check",
                                       ![c].ots_path = existing.ots_path,
                                       ![c].tsa_path = existing.tsa_path]
    /\ UNCHANGED <<store, files, ev_pc, ev_call, ev_ret, tsaVars, otsVars, sessVars>>

\* lines 77-80: a success whose file cannot be read counts as failed
RaceCheck ==
    /\ \E c \in Callers :
          /\ calls[c].pc = "check"
          /\ calls' = [calls EXCEPT
                ![c].pc = "create_ots",
                ![c].ots_status = IF @ = "success" /\ ReadFile(files, calls[c].ots_path) = <<>>
                                  THEN "failed" ELSE @,
                ![c].tsa_status = IF @ = "success" /\ ReadFile(files, calls[c].tsa_path) = <<>>
                                  THEN "failed" ELSE @]
    /\ UNCHANGED <<store, files, ev_pc, ev_call, ev_ret, tsaVars, otsVars, sessVars>>

\* lines 82-91: create_ots and save_ots_file
RaceCreateOts ==
    /\ \E c \in Callers, ots_result \in RaceOtsResults :
          /\ calls[c].pc = "create_ots"
          /\ \E create \in {calls[c].ots_status # "success" /\ calls[c].ots_enabled} :
             \E saved \in {create /\ ots_result.success /\ ots_result.ots_bytes # <<>>} :
                /\ files' = IF saved
                            THEN SaveFile(files, RaceHash, "ots", ots_result.ots_bytes)
                            ELSE files
                /\ calls' = [calls EXCEPT
                      ![c].pc = "create_tsa",
                      ![c].ots_status = IF @ = "success" THEN @
                                        ELSE IF calls[c].ots_enabled
                                        THEN StatusFromResult(ots_result.success)
                                        ELSE "disabled",
                      ![c].ots_path = IF saved THEN PathOf(RaceHash, "ots") ELSE @,
                      ![c].ots_created = create /\ ots_result.success]
    /\ UNCHANGED <<store, ev_pc, ev_call, ev_ret, tsaVars, otsVars, sessVars>>

\* lines 93-104: create_tsa and save_tsa_file
RaceCreateTsa ==
    /\ \E c \in Callers, tsa_result \in RaceTsaResults :
          /\ calls[c].pc = "create_tsa"
          /\ \E create \in {calls[c].tsa_status # "success" /\ calls[c].tsa_enabled} :
             \E saved \in {create /\ tsa_result.success /\ tsa_result.tsr_bytes # <<>>} :
                /\ files' = IF saved
                            THEN SaveFile(files, RaceHash, "tsr", tsa_result.tsr_bytes)
                            ELSE files
                /\ calls' = [calls EXCEPT
                      ![c].pc = "update",
                      ![c].tsa_status = IF @ = "success" THEN @
                                        ELSE IF calls[c].tsa_enabled
                                        THEN StatusFromResult(tsa_result.success)
                                        ELSE "disabled",
                      ![c].tsa_path = IF saved THEN PathOf(RaceHash, "tsr") ELSE @,
                      ![c].tsa_created = create /\ tsa_result.success]
    /\ UNCHANGED <<store, ev_pc, ev_call, ev_ret, tsaVars, otsVars, sessVars>>

\* line 106: update_statuses with the statuses and paths of the call
RaceUpdate ==
    /\ \E c \in Callers :
          /\ calls[c].pc = "update"
          /\ store' = UpdateStatuses(store, RaceHash, calls[c].ots_status,
                                     calls[c].tsa_status, calls[c].ots_path,
                                     calls[c].tsa_path)
          /\ calls' = [calls EXCEPT ![c].pc = "fetch"]
    /\ UNCHANGED <<files, ev_pc, ev_call, ev_ret, tsaVars, otsVars, sessVars>>

\* line 107: the record the call returns
RaceReturn ==
    /\ \E c \in Callers :
          /\ calls[c].pc = "fetch"
          /\ calls' = [calls EXCEPT ![c].pc = "returned",
                                     ![c].record = FetchByHash(store, RaceHash)]
    /\ UNCHANGED <<store, files, ev_pc, ev_call, ev_ret, tsaVars, otsVars, sessVars>>

RaceNext ==
    \/ RaceFetch
    \/ RaceInsert
    \/ RaceRefetch
    \/ RaceCheck
    \/ RaceCreateOts
    \/ RaceCreateTsa
    \/ RaceUpdate
    \/ RaceReturn

SpecRace == Init /\ [][RaceNext]_vars

(***************************************************************************)
(* The routes of app/api/routes.py over the session map, the table and the *)
(* files directory.  The server answers one request at a time; ev_ret.http *)
(* is the answer and ev_call holds the request and the state it met.       *)
(***************************************************************************)
\* the names a login form carries
LoginNames == {BasicAuthUser, "alice"}

\* POST /api/auth/login; token_urlsafe draws the token
RouteLogin ==
    /\ ev_pc = "idle"
    /\ \E username \in LoginNames, password_ok \in BOOLEAN, token \in Tokens :
          \E out \in {Login(sessions, username, password_ok, token, now)} :
             /\ sessions' = out.sessions
             /\ issued' = IF out.response.status = 200
                          THEN [issued EXCEPT ![token] = username] ELSE issued
             /\ ev_call' = [NoEvCall EXCEPT !.op = "login", !.cookie = token,
                                            !.sessions = sessions, !.at = now]
             /\ ev_ret' = [NoEvRet EXCEPT !.http = out.response]
    /\ ev_pc' = "returned"
    /\ UNCHANGED <<store, files, now, sess_ret, tsaVars, otsVars, raceVars>>

\* POST /api/auth/logout
RouteLogout ==
    /\ ev_pc = "idle"
    /\ \E cookie \in TokenInputs :
          \E out \in {Logout(sessions, cookie)} :
             /\ sessions' = out.sessions
             /\ ev_call' = [NoEvCall EXCEPT !.op = "logout", !.cookie = cookie,
                                            !.sessions = sessions, !.at = now]
             /\ ev_ret' = [NoEvRet EXCEPT !.http = out.response]
    /\ ev_pc' = "returned"
    /\ UNCHANGED <<store, files, now, issued, sess_ret, tsaVars, otsVars, raceVars>>

\* POST /api/evidence/upload, the calendars and the authority answering
RouteUpload ==
    /\ ev_pc = "idle"
    /\ \E hash_value \in {<<>>} \cup EvHashes, ots_option \in OptionValues,
          tsa_option \in OptionValues, save_option \in OptionValues,
          cookie \in TokenInputs, ots_result \in RaceOtsResults,
          tsa_result \in RaceTsaResults :
          \E out \in {UploadEvidence(sessions, now, store, files, hash_value,
                                     ots_option, tsa_option, save_option, cookie,
                                     ots_result, tsa_result)} :
             /\ sessions' = out.sessions
             /\ store' = out.store
             /\ files' = out.files
             /\ ev_call' = [NoEvCall EXCEPT
                               !.op = "upload", !.hash_value = hash_value,
                               !.ots_option = ots_option, !.tsa_option = tsa_option,
                               !.save_option = save_option, !.cookie = cookie,
                               !.ots_result = IF "ots" \in out.response.created
                                              THEN ots_result ELSE @,
                               !.tsa_result = IF "tsa" \in out.response.created
                                              THEN tsa_result ELSE @,
                               !.sessions = sessions, !.at = now,
                               !.store = store, !.files = files]
             /\ ev_ret' = [NoEvRet EXCEPT !.http = out.response]
    /\ ev_pc' = "returned"
    /\ UNCHANGED <<now, issued, sess_ret, tsaVars, otsVars, raceVars>>

\* GET /api/files/{hash_value}/ots and /tsa
RouteDownload ==
    /\ ev_pc = "idle"
    /\ \E hash_value \in EvHashes, protocol \in {"ots", "tsa"} :
          /\ ev_call' = [NoEvCall EXCEPT
                            !.op = "download", !.hash_value = hash_value,
                            !.protocol = protocol,
                            !.store = store, !.files = files]
          /\ ev_ret' = [NoEvRet EXCEPT
                           !.http = Download(store, files, hash_value, protocol)]
    /\ ev_pc' = "returned"
    /\ UNCHANGED <<store, files, sessVars, tsaVars, otsVars, raceVars>>

\* GET /api/evidence/{hash_value}, behind require_login
RouteGetEvidence ==
    /\ ev_pc = "idle"
    /\ \E hash_value \in EvHashes, cookie \in TokenInputs :
          \E guard \in {RequireLogin(sessions, cookie, now)} :
             /\ sessions' = guard.sessions
             /\ ev_call' = [NoEvCall EXCEPT
                               !.op = "get_evidence", !.hash_value = hash_value,
                               !.cookie = cookie, !.sessions = sessions, !.at = now,
                               !.store = store, !.files = files]
             /\ ev_ret' = [NoEvRet EXCEPT
                              !.http = IF guard.response.status # 200 THEN guard.response
                                       ELSE IF ~FetchByHash(store, hash_value).exists
                                       THEN HttpResponse(404, "record not found")
                                       ELSE HttpResponse(200, "")]
    /\ ev_pc' = "returned"
    /\ UNCHANGED <<store, files, now, issued, sess_ret, tsaVars, otsVars, raceVars>>

\* uploads of logged-in and anonymous callers as time passes
UploadNext == SessTick \/ RouteLogin \/ RouteUpload \/ EvReturn

SpecUpload == Init /\ [][UploadNext]_vars

\* downloads of what process_submission stored, deleted or lost since
DownloadNext == EvProcess \/ EvDelete \/ EvFileLost \/ RouteDownload \/ EvReturn

SpecDownload == Init /\ [][DownloadNext]_vars

\* logins, logouts and guarded requests as time passes
LogoutNext == SessTick \/ RouteLogin \/ RouteLogout \/ RouteGetEvidence \/ EvReturn

SpecLogout == Init /\ [][LogoutNext]_vars

(***************************************************************************)
(* Properties of the token service.                                        *)
(***************************************************************************)
TsaReturned(op) == tsa_pc = "returned" /\ tsa_call.op = op

\* the strict binary decode of the call's bytes succeeds
StrictOk == DecodeTimestampResponse(tsa_call.bytes).ok

\* the call's bytes are text that is not PEM-delimited
BareText ==
    /\ ~StrictOk
    /\ IsAscii(tsa_call.bytes)
    /\ ~StartsWith(Strip(tsa_call.bytes), PemBegin)

BareB64Text == RemoveLineBreaks(Strip(tsa_call.bytes))

IsB64DecodeStep(step) ==
    step \in {"pem:b64decode", "b64:b64decode(validate)", "b64retry:b64decode"}

\* the steps of the chain among the attempts of a call
ChainSteps == SelectSeq(tsa_ret.attempts, LAMBDA step : step # "get_timestamp")

\* C2: verify_tsa returns success only if the token was decoded and, when a
\* digest is supplied, the imprint extracted from the token equals the whole
\* digest, byte for byte (same length, same bytes); the bytes are then an
\* intact encoding of a structure whose imprint is that digest.
C2_SuccessOnlyOnFullMatch ==
    (TsaReturned("verify") /\ tsa_ret.result.success) =>
        /\ tsa_call.lib.import
        /\ DecodeTsaResponse(tsa_call.bytes).ok \/ GetTimestamp(tsa_call.bytes).ok
        /\ tsa_call.hash_hex # <<>> =>
              LET digest == FromHex(tsa_call.hash_hex)
                  tst == ExtractTstToken(tsa_call.bytes, tsa_call.lib)
              IN  /\ digest.ok
                  /\ tst.present
                  /\ Len(tst.imprint) = Len(digest.val)
                  /\ \A i \in 1..Len(digest.val) : tst.imprint[i] = digest.val[i]
                  /\ tsa_call.form \in {"der"} \cup TextForms
                  /\ tsa_call.t.imprint = digest.val

C2_Witness ==
    /\ TsaReturned("verify")
    /\ tsa_ret.result.success
    /\ tsa_call.hash_hex # <<>>
    /\ Len(tsa_call.t.imprint) >= 2
    /\ tsa_call.form = "pem"

\* C4: verify_tsa reports an error beginning with "hash mismatch" exactly
\* when the token was decoded, its imprint was extracted and the imprint
\* differs from the supplied digest; a failure to decode or to find the
\* imprint has another error.
C4_MismatchExactlyWhenImprintDiffers ==
    TsaReturned("verify") =>
        LET err == tsa_ret.result.error
            digest == FromHex(tsa_call.hash_hex)
            tst == ExtractTstToken(tsa_call.bytes, tsa_call.lib)
        IN  (err # NoError /\ err[1] = "hash mismatch")
            <=> /\ tsa_call.lib.import
                /\ ExtractTsaInfo(tsa_call.bytes, tsa_call.lib).error = NoError
                /\ tsa_call.hash_hex # <<>>
                /\ digest.ok
                /\ tst.present
                /\ tst.imprint # <<>>
                /\ tst.imprint # digest.val
                /\ tsa_call.t.imprint # digest.val

C4_Witness ==
    /\ TsaReturned("verify")
    /\ tsa_ret.result.error # NoError
    /\ tsa_ret.result.error[1] = "hash mismatch"
    /\ tsa_call.form = "b64"

\* the case of C5: the call reached the decode chain with bytes that fail
\* the strict decode and are not ASCII
BinaryUndecodable ==
    /\ tsa_ret.attempts # <<>>
    /\ tsa_call.lib.decoder
    /\ ~StrictOk
    /\ ~IsAscii(tsa_call.bytes)

\* C5 as claimed: bytes that fail the strict decode and are not ASCII make
\* verify_tsa and create_tsa fail with the malformed-binary error, and no
\* other strategy or parser is tried on them.
C5_Claimed ==
    (/\ TsaReturned("verify") \/ TsaReturned("create")
     /\ BinaryUndecodable
     /\ tsa_call.lib = LibFull) =>
        /\ tsa_ret.result.error = ErrBinary
        /\ tsa_ret.attempts = <<"strict", "ascii">>

\* C5 amended: on such bytes the decode chain fails with the malformed-binary
\* error after the strict decode and the ASCII test alone (no PEM, no
\* base64); _extract_tsa_info discards that error and, when the library has
\* it, tries the token parser on the same bytes: the call goes on when the
\* bytes are a bare token, and otherwise its error is "invalid tsa response:
\* ...", never the malformed-binary error.
C5_BinaryFallsToTokenParser ==
    /\ (TsaReturned("decode") /\ ~StrictOk /\ ~IsAscii(tsa_call.bytes)) =>
          /\ ~tsa_ret.dec.ok
          /\ tsa_ret.dec.err = ErrBinary
          /\ tsa_ret.attempts = <<"strict", "ascii">>
    /\ ((TsaReturned("verify") \/ TsaReturned("create")) /\ BinaryUndecodable) =>
          /\ ChainSteps = <<"strict", "ascii">>
          /\ tsa_ret.result.error # ErrBinary
          /\ tsa_call.lib.parser =>
                /\ tsa_ret.attempts = <<"strict", "ascii", "get_timestamp">>
                /\ GetTimestamp(tsa_call.bytes).ok =>
                      <<"format", "tst">> \in tsa_ret.result.info
                /\ ~GetTimestamp(tsa_call.bytes).ok =>
                      tsa_ret.result.error = <<ErrInvalid, ErrNotToken>>
          /\ ~tsa_call.lib.parser =>
                tsa_ret.result.error = <<ErrInvalid, "decoder unavailable">>

C5_Witness ==
    /\ TsaReturned("verify")
    /\ BinaryUndecodable
    /\ tsa_ret.result.success
    /\ tsa_ret.attempts = <<"strict", "ascii", "get_timestamp">>

\* the fixed order of the steps of the decode chain
ChainOrder ==
    <<"strict", "ascii", "pem:b64decode", "pem:decoder", "b64:alphabet",
      "b64:b64decode(validate)", "b64:decoder", "b64retry:b64decode",
      "b64retry:decoder">>

Rank(step) == CHOOSE i \in 1..Len(ChainOrder) : ChainOrder[i] = step

\* C6: every run of the decode chain takes its steps in the order strict
\* decode, ASCII test, PEM, bare base64 and stops at the first success: a
\* base64 decode comes only after a failed strict decode and a passed ASCII
\* test, never after a strict decode that succeeded, and PEM and bare
\* base64 are not both tried.
C6_ChainOrder ==
    (tsa_pc = "returned" /\ ChainSteps # <<>>) =>
        LET a == ChainSteps IN
        /\ a[1] = "strict"
        /\ \A i \in 1..Len(a) : \E k \in 1..Len(ChainOrder) : ChainOrder[k] = a[i]
        /\ \A i \in 1..(Len(a) - 1) : Rank(a[i]) < Rank(a[i + 1])
        /\ StrictOk => a = <<"strict">>
        /\ \A i \in 1..Len(a) :
              IsB64DecodeStep(a[i]) =>
                  /\ ~StrictOk
                  /\ IsAscii(tsa_call.bytes)
                  /\ i > 2
                  /\ a[2] = "ascii"
        /\ ~(\E i, j \in 1..Len(a) : a[i] = "pem:b64decode" /\ a[j] = "b64:alphabet")
        /\ (TsaReturned("decode") /\ tsa_ret.dec.ok) =>
              /\ a[Len(a)] \in {"strict", "pem:decoder", "b64:decoder", "b64retry:decoder"}
              /\ \A i \in 1..(Len(a) - 1) :
                    a[i] \notin {"pem:decoder", "b64retry:decoder"}

C6_Witness ==
    /\ TsaReturned("decode")
    /\ tsa_ret.dec.ok
    /\ tsa_ret.attempts =
          <<"strict", "ascii", "b64:alphabet", "b64:b64decode(validate)", "b64:decoder">>

\* C7: text that is not PEM-delimited and holds, line breaks removed, a
\* character outside the base64 alphabet makes the decoder fail with the
\* invalid-alphabet error, which its caller receives, and no base64 decode
\* is attempted.
C7_AlphabetErrorBeforeDecode ==
    (/\ TsaReturned("decode")
     /\ BareText
     /\ \E i \in 1..Len(BareB64Text) : ~IsB64Char(BareB64Text[i]) /\ BareB64Text[i] # PadChar)
    =>  /\ ~tsa_ret.dec.ok
        /\ tsa_ret.dec.err = ErrAlphabet
        /\ \A i \in 1..Len(tsa_ret.attempts) : ~IsB64DecodeStep(tsa_ret.attempts[i])
        /\ tsa_ret.attempts = <<"strict", "ascii", "b64:alphabet">>

C7_Witness ==
    /\ TsaReturned("decode")
    /\ tsa_call.form = "badchar"
    /\ BareText
    /\ tsa_ret.dec.err = ErrAlphabet

\* the case of C8: text of alphabet characters only, not PEM-delimited,
\* whose length is not a multiple of 4
UnpaddedText ==
    /\ TsaReturned("decode")
    /\ BareText
    /\ \A i \in 1..Len(BareB64Text) : BareB64Text[i] \in Allowed
    /\ Len(BareB64Text) % 4 # 0

\* C8 as claimed: every such text, once padded, is decoded successfully
\* (stated in its weakest reading: the base64 decode of the padded text
\* succeeds, so that the token decoder is reached).
C8_Claimed ==
    UnpaddedText =>
        \E i \in 1..Len(tsa_ret.attempts) :
            tsa_ret.attempts[i] \in {"b64:decoder", "b64retry:decoder"}

\* C8 amended: the base64 text of a structure with its trailing "=" removed
\* is padded with "=" to the next multiple of 4, which restores the padded
\* form exactly, so the decoder returns for it what it returns for the
\* padded form; for a response that is success, with the response its DER
\* bytes decode to.  (A text of alphabet characters whose length is 1 more
\* than a multiple of 4 cannot be decoded however it is padded.)
C8_UnpaddedTokenDecodes ==
    (UnpaddedText /\ tsa_call.form = "b64_nopad") =>
        LET padded == DecodeTsaResponse(Encode("b64", tsa_call.t)) IN
        /\ Len(PadToQuad(BareB64Text)) % 4 = 0
        /\ PadToQuad(BareB64Text) = Encode("b64", tsa_call.t)
        /\ tsa_ret.dec.ok = padded.ok
        /\ tsa_ret.dec.tsr = padded.tsr
        /\ tsa_ret.dec.err = padded.err
        /\ tsa_call.t.kind = "tsr" =>
              /\ tsa_ret.dec.ok
              /\ tsa_ret.dec.tsr = DecodeTimestampResponse(Der(tsa_call.t)).tsr
              /\ tsa_ret.dec.tsr.time_stamp_token.imprint = tsa_call.t.imprint

C8_Witness ==
    /\ UnpaddedText
    /\ tsa_call.form = "b64_nopad"
    /\ tsa_call.t.kind = "tsr"
    /\ Len(BareB64Text) % 4 = 3
    /\ tsa_ret.dec.ok

\* C9 as claimed: the DER bytes of a structure, their PEM form and their
\* bare base64 form all decode and give the same imprint, so verify_tsa
\* returns the same outcome for the three.
C9_Claimed ==
    (/\ TsaReturned("verify")
     /\ tsa_call.lib = LibFull
     /\ tsa_call.form \in {"pem", "b64"})
    =>  LET der == VerifyTsa(Der(tsa_call.t), tsa_call.hash_hex, tsa_call.lib) IN
        /\ tsa_ret.result.success = der.success
        /\ tsa_ret.result.error = der.error

(***************************************************************************)
(* Properties of the proof service.                                        *)
(***************************************************************************)
OtsReturned(op) == ots_pc = "returned" /\ ots_call.op = op

\* the library the call loaded reads a tree from the call's bytes
ProofReads ==
    IF ots_call.env.client THEN DeserializeBare(ots_call.ots_bytes).ok
    ELSE ots_call.env.core /\ DeserializeDetached(ots_call.ots_bytes).ok

\* a digest is supplied and differs from the root message of the proof
DigestDiffers ==
    /\ ots_call.hash_hex # <<>>
    /\ FromHex(ots_call.hash_hex).ok
    /\ ProofReads
    /\ TreeOf(ots_call.ots_bytes, ots_call.env).msg # FromHex(ots_call.hash_hex).val

\* C1 (as claimed): whenever verify_ots is given a digest and a proof that
\* deserializes to a tree whose root message differs from the digest, it
\* returns success = false, error "hash mismatch" and info.hash_match =
\* false, whatever the client's verification, the upgrades and the lookups
\* give.  Violated: with a client loaded, ots_verify runs before the digest
\* is compared, and when it raises the result carries its error and an
\* empty info.
C1_Claimed ==
    (OtsReturned("verify") /\ DigestDiffers)
        => /\ ots_ret.result.success = FALSE
           /\ ots_ret.result.error = <<"hash mismatch">>
           /\ "hash_match" \in ots_ret.result.info.keys
           /\ ots_ret.result.info.hash_match = FALSE

\* the i-th calendar of a create call answered with a timestamp of the
\* submitted digest
Succeeded(i) ==
    /\ ots_call.answers[i].kind = "ts"
    /\ ots_call.answers[i].ts.msg = FromHex(ots_call.hash_hex).val

SucceededCount == Cardinality({i \in 1..Len(ots_call.calendars) : Succeeded(i)})

\* the calendars that failed, in list order
RECURSIVE FailedFrom(_)
FailedFrom(i) ==
    IF i > Len(ots_call.calendars) THEN <<>>
    ELSE (IF Succeeded(i) THEN <<>> ELSE <<ots_call.calendars[i]>>) \o FailedFrom(i + 1)

\* a create call that ran the aggregation over a non-empty calendar list
Aggregated ==
    /\ OtsReturned("create")
    /\ ~ots_call.env.client
    /\ ots_call.env.core
    /\ FromHex(ots_call.hash_hex).ok
    /\ ots_call.calendars # <<>>

\* C10: for a non-empty calendar list the aggregation succeeds exactly when
\* at least one calendar's submission succeeded; on success ots_bytes is the
\* serialized tree holding the promise of every calendar that succeeded,
\* calendar_success is their number and calendar_errors has one entry for
\* each calendar that failed, in list order.
C10_SuccessIffOneSucceeded ==
    Aggregated =>
        /\ ots_ret.result.success <=> SucceededCount >= 1
        /\ ots_ret.result.success =>
              LET read == DeserializeDetached(ots_ret.result.ots_bytes)
                  all == AllAttestations(read.timestamp)
                  errors == ots_ret.result.info.calendar_errors
              IN  /\ read.ok
                  /\ read.timestamp = ots_ret.tree
                  /\ read.timestamp.msg = FromHex(ots_call.hash_hex).val
                  /\ {all[i] : i \in 1..Len(all)} =
                        {[msg |-> Append(read.timestamp.msg, CalOp(ots_call.calendars[i])),
                          att |-> Att(TagPending, ots_call.calendars[i])] :
                            i \in {j \in 1..Len(ots_call.calendars) : Succeeded(j)}}
                  /\ ots_ret.result.info.keys = {"calendar_success", "calendar_errors"}
                  /\ ots_ret.result.info.calendar_success = SucceededCount
                  /\ [i \in 1..Len(errors) |-> errors[i][1]] = FailedFrom(1)

\* three calendars of which exactly one succeeded: success with two errors
C10_Witness ==
    /\ Aggregated
    /\ Len(ots_call.calendars) = 3
    /\ SucceededCount = 1
    /\ ots_ret.result.success
    /\ Len(ots_ret.result.info.calendar_errors) = 2

\* the promise of the i-th calendar of a create call, as all_attestations
\* lists it
PromiseOf(i) ==
    [msg |-> Append(FromHex(ots_call.hash_hex).val, CalOp(ots_call.calendars[i])),
     att |-> Att(TagPending, ots_call.calendars[i])]

\* the attestations of the tree a call ended with
TreeAttestations ==
    LET all == AllAttestations(ots_ret.tree) IN {all[i] : i \in 1..Len(all)}

\* C11: the aggregation sends one submission to every calendar of the list,
\* in list order, whatever earlier calendars did; the number of successes
\* plus the number of errors is the number of calendars; and the tree keeps
\* the promise of every calendar that succeeded, also of those followed by a
\* calendar that failed.
C11_EveryCalendarAttemptedOnce ==
    Aggregated =>
        LET n == Len(ots_call.calendars)
            success_count == IF ots_ret.result.success
                             THEN ots_ret.result.info.calendar_success
                             ELSE 0
        IN  /\ ots_ret.net = [i \in 1..n |-> NetReq("submit", "", ots_call.calendars[i])]
            /\ success_count = SucceededCount
            /\ success_count + Len(ots_ret.result.info.calendar_errors) = n
            /\ \A i \in 1..n : Succeeded(i) => PromiseOf(i) \in TreeAttestations

\* the first calendar fails, the second succeeds, the third fails: all three
\* were asked and the promise of the second is in the tree
C11_Witness ==
    /\ Aggregated
    /\ Len(ots_call.calendars) = 3
    /\ ots_call.answers[1].kind = "raise"
    /\ Succeeded(2)
    /\ ~Succeeded(3)
    /\ Len(ots_ret.net) = 3
    /\ PromiseOf(2) \in TreeAttestations

\* what the i-th calendar of a create call failed with
FailureOf(i) ==
    IF ots_call.answers[i].kind = "raise" THEN ErrNetwork ELSE ErrMergeMsg

\* C12: when every calendar of a non-empty list fails, the aggregation
\* returns a failure without proof bytes whose info holds, under "errors",
\* one entry for each calendar in list order, made of the calendar and of
\* what its request failed with.
C12_AllFailedListsEveryCalendar ==
    (Aggregated /\ SucceededCount = 0) =>
        LET errors == ots_ret.result.info.calendar_errors IN
        /\ ~ots_ret.result.success
        /\ ots_ret.result.error = <<"all calendars failed">>
        /\ ots_ret.result.ots_bytes = <<>>
        /\ ots_ret.result.updated_ots_bytes = <<>>
        /\ ots_ret.result.info.keys = {"errors"}
        /\ Len(errors) = Len(ots_call.calendars)
        /\ \A i \in 1..Len(errors) :
              errors[i] = <<ots_call.calendars[i], FailureOf(i)>>

\* three calendars, not all the same, failed in two different ways
C12_Witness ==
    /\ Aggregated
    /\ SucceededCount = 0
    /\ ots_call.calendars = <<2, 1, 2>>
    /\ FailureOf(1) # FailureOf(2)
    /\ Len(ots_ret.result.info.calendar_errors) = 3

\* C13 (as claimed): create_ots called with an empty calendar list, a hex
\* digest and the library installed fails with the configuration error and
\* makes no network request, whether or not a client loads.  Violated: with
\* a client loaded create_ots never reads the list and has the client stamp.
C13_Claimed ==
    (/\ OtsReturned("create")
     /\ ots_call.calendars = <<>>
     /\ ots_call.env.core
     /\ FromHex(ots_call.hash_hex).ok)
        => /\ ~ots_ret.result.success
           /\ ots_ret.result.error = <<"no calendars configured">>
           /\ ots_ret.net = <<>>

\* a verify call that went through _collect_blockchain_proofs
Resolved ==
    /\ OtsReturned("verify")
    /\ \/ ots_ret.result.success
       \/ /\ ots_call.env.client
          /\ ots_call.outcome # "raise"
          /\ DeserializeBare(ots_call.ots_bytes).ok

\* the block-hash requests of the call, in order
BlockHashRequests == SelectSeq(ots_ret.net, LAMBDA r : r.kind = "block_hash")

\* the anchors of the resolved tree, in the order all_attestations gives
Anchors ==
    SelectSeq(AllAttestations(ots_ret.tree), LAMBDA a : a.att.tag \in {TagBitcoin, TagLitecoin})

AnchorKey(a) == <<IF a.att.tag = TagBitcoin THEN "bitcoin" ELSE "litecoin", a.att.val>>

DistinctAnchorKeys == {AnchorKey(Anchors[i]) : i \in 1..Len(Anchors)}

RequestsFor(key) ==
    Cardinality({i \in 1..Len(BlockHashRequests) :
                    <<BlockHashRequests[i].chain, BlockHashRequests[i].n>> = key})

\* C14: in one pass of _collect_blockchain_proofs every distinct
\* <<chain, height>> among the anchors of the tree is looked up exactly once
\* (not at all when the chain's API is disabled), however many anchors share
\* it and whatever earlier calls looked up; no other request is made and
\* every entry carries what the lookup of this call gave.
C14_OneLookupPerDistinctAnchor ==
    Resolved =>
        LET proofs == ots_ret.result.info.blockchain_proofs IN
        /\ \A key \in DistinctAnchorKeys :
              RequestsFor(key) = IF ots_call.settings.api[key[1]] THEN 1 ELSE 0
        /\ \A i \in 1..Len(BlockHashRequests) :
              <<BlockHashRequests[i].chain, BlockHashRequests[i].n>> \in DistinctAnchorKeys
        /\ \A i \in 1..Len(proofs) :
              LET key == <<proofs[i].chain, proofs[i].height>>
                  found == LookupBlockHash(key[1], key[2], ots_call.settings,
                                           ots_call.lookups[key])
              IN  /\ proofs[i].block_hash = found.block_hash
                  /\ proofs[i].block_hash_error = found.error

\* two anchors of the same chain and height, one request
C14_Witness ==
    /\ Resolved
    /\ Len(Anchors) = 2
    /\ Cardinality(DistinctAnchorKeys) = 1
    /\ Len(BlockHashRequests) = 1
    /\ Len(ots_ret.result.info.blockchain_proofs) = 1

\* no digest is supplied, or the one supplied is the root message of the
\* proof
DigestAgrees ==
    \/ ots_call.hash_hex = <<>>
    \/ /\ FromHex(ots_call.hash_hex).ok
       /\ TreeOf(ots_call.ots_bytes, ots_call.env).msg = FromHex(ots_call.hash_hex).val

\* a verify call whose proof reads, whose digest agrees and whose client,
\* when one loads, verified without raising
Verifiable ==
    /\ OtsReturned("verify")
    /\ ProofReads
    /\ DigestAgrees
    /\ ots_call.env.client => ots_call.outcome # "raise"

\* the distinct keys of the anchors from the i-th on, in order of first
\* occurrence
RECURSIVE DistinctFrom(_, _)
DistinctFrom(i, seen) ==
    IF i > Len(Anchors) THEN <<>>
    ELSE IF AnchorKey(Anchors[i]) \in seen THEN DistinctFrom(i + 1, seen)
    ELSE <<AnchorKey(Anchors[i])>> \o DistinctFrom(i + 1, seen \cup {AnchorKey(Anchors[i])})

\* the lookup of key gives no block hash in this call
LookupFails(key) ==
    \/ ~ots_call.settings.api[key[1]]
    \/ ots_call.lookups[key].kind \in {"raise", "status", "empty", "json"}

InputPending ==
    CollectPendingAttestations(TreeOf(ots_call.ots_bytes, ots_call.env))

\* the upgrade requests of the call, in order
UpgradeRequests == SelectSeq(ots_ret.net, LAMBDA r : r.kind = "upgrade")

\* the calendar of the i-th Pending attestation answered the upgrade request
\* with a timestamp of the node's message
Upgraded(i) ==
    /\ ots_call.upgrades[i].kind = "ts"
    /\ ots_call.upgrades[i].ts.msg = InputPending[i].msg

\* the attestations the answer to the i-th upgrade request holds
AnswerAttestations(i) ==
    LET all == AllAttestations(ots_call.upgrades[i].ts) IN {all[j] : j \in 1..Len(all)}

\* the result carries the bytes of the tree the call ended with
CarriesUpdatedBytes ==
    /\ ots_ret.result.updated_ots_bytes # <<>>
    /\ DeserializeDetached(ots_ret.result.updated_ots_bytes).ok
    /\ DeserializeDetached(ots_ret.result.updated_ots_bytes).timestamp = ots_ret.tree

\* C16 (as claimed): for every proof verify_ots verifies against a matching
\* digest, one upgrade request goes to the calendar of each Pending
\* attestation; what a successful request returned is merged at the node of
\* the attestation, and the result then carries the bytes of the merged
\* tree.  Violated: with a client loaded verify_ots makes no upgrade request
\* and never returns updated bytes.
C16_Claimed ==
    (Verifiable /\ ots_call.hash_hex # <<>>) =>
        /\ UpgradeRequests =
              [i \in 1..Len(InputPending) |-> NetReq("upgrade", "", InputPending[i].att.val)]
        /\ \A i \in 1..Len(InputPending) :
              Upgraded(i) => /\ AnswerAttestations(i) \subseteq TreeAttestations
                             /\ CarriesUpdatedBytes

\* the tree read from the bytes of a verify call holds no Pending
\* attestation
NothingPending ==
    LET all == AllAttestations(TreeOf(ots_call.ots_bytes, ots_call.env)) IN
    \A i \in 1..Len(all) : all[i].att.tag # TagPending

\* C17: verify_ots on a proof whose tree holds no Pending attestation makes
\* no upgrade request and returns no updated proof bytes.
C17_NothingPendingNothingUpgraded ==
    (OtsReturned("verify") /\ ProofReads /\ NothingPending) =>
        /\ UpgradeRequests = <<>>
        /\ ots_ret.result.updated_ots_bytes = <<>>

\* a proof with anchors only, verified where no client loads
C17_Witness ==
    /\ Verifiable
    /\ ~ots_call.env.client
    /\ NothingPending
    /\ Len(Anchors) >= 1
    /\ ots_ret.result.success
    /\ ots_ret.result.updated_ots_bytes = <<>>

\* what the i-th upgrade request of a verify call failed with
UpgradeFailureOf(i) ==
    IF ots_call.upgrades[i].kind = "raise" THEN ErrNetwork ELSE ErrMergeMsg

\* the Pending attestations from the i-th on whose upgrade failed, as the
\* entries of upgrade_errors
RECURSIVE UpgradeErrorsFrom(_)
UpgradeErrorsFrom(i) ==
    IF i > Len(InputPending) THEN <<>>
    ELSE (IF Upgraded(i) THEN <<>>
          ELSE <<(<<InputPending[i].att.val, UpgradeFailureOf(i)>>)>>)
             \o UpgradeErrorsFrom(i + 1)

\* C18: where verify_ots upgrades (no client loaded, proof read, digest
\* agreeing), calendar_results has one entry for each Pending attestation,
\* in the order of the traversal: its URI with success true when the
\* upgrade succeeded, with success false and the error otherwise; every
\* Pending attestation is asked once whatever the others gave, and what the
\* successful upgrades returned is in the final tree whatever failed
\* before or after them.
C18_OneResultPerPending ==
    (Verifiable /\ ~ots_call.env.client) =>
        LET results == ots_ret.result.info.calendar_results
            n == Len(InputPending)
        IN  /\ Len(results) = n
            /\ UpgradeRequests =
                  [i \in 1..n |-> NetReq("upgrade", "", InputPending[i].att.val)]
            /\ \A i \in 1..n :
                  /\ results[i].uri = InputPending[i].att.val
                  /\ results[i].success <=> Upgraded(i)
                  /\ results[i].error = IF Upgraded(i) THEN "" ELSE UpgradeFailureOf(i)
                  /\ Upgraded(i) => AnswerAttestations(i) \subseteq TreeAttestations
            /\ ots_ret.result.info.upgrade_errors = UpgradeErrorsFrom(1)
            /\ "calendar_results" \in ots_ret.result.info.keys <=> n > 0

\* two Pending attestations: the upgrade of the first succeeds, that of the
\* second fails; both have their entry and the anchor of the first is in
\* the tree returned
C18_Witness ==
    /\ Verifiable
    /\ ~ots_call.env.client
    /\ Len(InputPending) = 2
    /\ Upgraded(1)
    /\ ~Upgraded(2)
    /\ Len(ots_ret.result.info.calendar_results) = 2
    /\ CarriesUpdatedBytes

\* the calendars of a create call whose submission succeeded
SucceededCalendars ==
    {ots_call.calendars[i] : i \in {j \in 1..Len(ots_call.calendars) : Succeeded(j)}}

Orders(n) == {p \in [1..n -> 1..n] : \A i, j \in 1..n : p[i] = p[j] => i = j}

\* what _create_ots_with_calendar gives for the calendars of the call taken
\* in the order p, each answering as it did
Reordered(p) ==
    CreateOtsWithCalendar(ots_call.hash_hex,
                          [i \in 1..Len(ots_call.calendars) |-> ots_call.calendars[p[i]]],
                          ots_call.env,
                          [i \in 1..Len(ots_call.calendars) |-> ots_call.answers[p[i]]])

\* C23: the tree an aggregation builds, its serialization and its success
\* do not depend on the order of the calendar list: with the calendars in
\* any other order, each answering the same, the result tree is equal.
C23_MergeCommutative ==
    Aggregated =>
        \A p \in Orders(Len(ots_call.calendars)) :
            /\ Reordered(p).tree = ots_ret.tree
            /\ Reordered(p).result.success = ots_ret.result.success
            /\ Reordered(p).result.ots_bytes = ots_ret.result.ots_bytes

\* two different calendars, both answering: the tree holds both branches
C23_Witness ==
    /\ Aggregated
    /\ ots_call.calendars = <<1, 2>>
    /\ SucceededCount = 2
    /\ DOMAIN ots_ret.tree.ops = {CalOp(1), CalOp(2)}
    /\ Reordered(<<2, 1>>).tree = ots_ret.tree

\* the nodes of a tree
RECURSIVE NodesOf(_)
NodesOf(ts) == {ts} \cup UNION {NodesOf(ts.ops[o]) : o \in DOMAIN ts.ops}

\* the attestations of a tree, each with the message of its node
AttestationsOf(ts) ==
    LET all == AllAttestations(ts) IN {all[i] : i \in 1..Len(all)}

HoldsPending(node) == \E a \in node.attestations : a.tag = TagPending

IsPrefix(s, t) == Len(s) <= Len(t) /\ SubSeq(t, 1, Len(s)) = s

\* the tree verify_ots read, before any upgrade
TreeBefore == TreeOf(ots_call.ots_bytes, ots_call.env)

\* C24: across the upgrades of verify_ots the root message stays, every
\* attestation of the tree read (every anchor with its chain and height,
\* every Pending one) is still in the tree at its node, a node that holds no
\* Pending attestation keeps exactly its attestations and its operations,
\* and every attestation that was added sits at or below a node that held a
\* Pending attestation.
C24_UpgradeOnlyGrows ==
    (Verifiable /\ ~ots_call.env.client) =>
        /\ ots_ret.tree.msg = TreeBefore.msg
        /\ AttestationsOf(TreeBefore) \subseteq AttestationsOf(ots_ret.tree)
        /\ \A n \in NodesOf(TreeBefore) :
              \E m \in NodesOf(ots_ret.tree) :
                  /\ m.msg = n.msg
                  /\ n.attestations \subseteq m.attestations
                  /\ DOMAIN n.ops \subseteq DOMAIN m.ops
                  /\ ~HoldsPending(n) => /\ m.attestations = n.attestations
                                         /\ DOMAIN m.ops = DOMAIN n.ops
        /\ \A a \in AttestationsOf(ots_ret.tree) \ AttestationsOf(TreeBefore) :
              \E n \in NodesOf(TreeBefore) : HoldsPending(n) /\ IsPrefix(n.msg, a.msg)

\* a tree with an anchor and a Pending attestation whose upgrade succeeds:
\* the anchor read is still there and another one was added
C24_Witness ==
    /\ Verifiable
    /\ ~ots_call.env.client
    /\ Len(InputPending) = 1
    /\ Upgraded(1)
    /\ \E a \in AttestationsOf(TreeBefore) : a.att.tag = TagBitcoin
    /\ Cardinality(AttestationsOf(ots_ret.tree)) = Cardinality(AttestationsOf(TreeBefore)) + 1

\* the nodes of a tree, each named by the operations that lead to it
RECURSIVE PathsOf(_)
PathsOf(ts) ==
    {<<>>} \cup UNION {{<<o>> \o p : p \in PathsOf(ts.ops[o])} : o \in DOMAIN ts.ops}

RECURSIVE NodeAt(_, _)
NodeAt(ts, path) == IF path = <<>> THEN ts ELSE NodeAt(ts.ops[Head(path)], Tail(path))

\* every Pending attestation of the tree read, with the path of its node
PendingByPath ==
    UNION {{<<p, a>> : a \in {x \in NodeAt(TreeBefore, p).attestations : x.tag = TagPending}} :
              p \in PathsOf(TreeBefore)}

\* every Pending attestation of the tree read, with the message of its node
PendingByMessage ==
    {<<NodeAt(TreeBefore, p[1]).msg, p[2]>> : p \in PendingByPath}

UrlKind(url) == url.kind

\* C27: the explorer URL of an anchor is built from the block template of
\* its chain, with the hash, exactly when a hash was resolved and that
\* template is configured; otherwise from the height template of its chain
\* when that is configured; otherwise there is none, as for a chain that is
\* not supported.  An anchor whose lookup failed has a URL built from the
\* height template when that is configured.
C27_ExplorerUrlByTemplate ==
    Verifiable =>
        LET proofs == ots_ret.result.info.blockchain_proofs
            set == ots_call.settings
        IN
        /\ \A i \in 1..Len(proofs) :
              LET p == proofs[i]
                  byBlock == p.block_hash # "" /\ set.block_url[p.chain]
              IN
              /\ UrlKind(p.explorer_url) = "block" <=> byBlock
              /\ byBlock => /\ p.explorer_url.chain = p.chain
                             /\ p.explorer_url.hash = p.block_hash
              /\ UrlKind(p.explorer_url) = "height" <=> (~byBlock /\ set.height_url[p.chain])
              /\ UrlKind(p.explorer_url) = "height"
                    => /\ p.explorer_url.chain = p.chain
                       /\ p.explorer_url.height = p.height
              /\ p.explorer_url = NoUrl <=> (~byBlock /\ ~set.height_url[p.chain])
              /\ (p.block_hash_error # "" /\ set.height_url[p.chain])
                    => UrlKind(p.explorer_url) = "height"
        /\ \A hash \in {"", "00ab"} :
              BuildExplorerUrl("dogecoin", 7, hash, set) = NoUrl

\* two anchors with every template configured: the lookup of the first
\* fails and its URL is built from the height, that of the second answers
\* and its URL is built from the hash
C27_Witness ==
    /\ Verifiable
    /\ ots_call.settings = DefaultSettings
    /\ Len(ots_ret.result.info.blockchain_proofs) = 2
    /\ ots_ret.result.info.blockchain_proofs[1].block_hash_error # ""
    /\ UrlKind(ots_ret.result.info.blockchain_proofs[1].explorer_url) = "height"
    /\ ots_ret.result.info.blockchain_proofs[2].block_hash # ""
    /\ UrlKind(ots_ret.result.info.blockchain_proofs[2].explorer_url) = "block"

(***************************************************************************)
(* Properties of the evidence service.                                     *)
(***************************************************************************)
EvReturned(op) == ev_pc = "returned" /\ ev_call.op = op

\* the authority answered the call with the token for the submitted digest
TokenForDigest ==
    ev_call.response =
        RespBytes(Der([kind |-> "tst", imprint |-> FromHex(ev_call.hash_value).val]))

\* C3 (as claimed): process_submission stores tsa_status success for a
\* record only if the token the authority returned decodes and its message
\* imprint equals the submitted digest.  Violated: create_tsa decodes the
\* token and never compares its imprint with the digest, so a token issued
\* for another digest is stored as success.
C3_Claimed ==
    (/\ EvReturned("process")
     /\ ev_call.save_record
     /\ "tsa" \in ev_ret.created
     /\ store[ev_call.hash_value].tsa_status = "success")
        => TokenForDigest

\* what create_ots and create_tsa gave to a process call
CreatedOts ==
    CreateOts(ev_call.hash_value, EvCalendars, [client |-> FALSE, core |-> TRUE],
              CalRaise, ev_call.answers).result

CreatedTsa == CreateTsa(ev_call.hash_value, TRUE, LibFull, ev_call.response)

FinalStatuses == {"success", "failed", "disabled"}

\* C19: when process_submission returns, the status it returns for each
\* protocol is success, failed or disabled; with save_record the row of the
\* hash exists and stores these statuses, also when the call inserted the
\* row (as pending) itself; and between calls no row is pending.
C19_NeverPendingAtReturn ==
    /\ \A h \in EvHashes :
          store[h].exists => /\ store[h].ots_status \in FinalStatuses
                             /\ store[h].tsa_status \in FinalStatuses
    /\ EvReturned("process") =>
          /\ ev_ret.result.ots_status \in FinalStatuses
          /\ ev_ret.result.tsa_status \in FinalStatuses
          /\ ev_call.save_record =>
                /\ store[ev_call.hash_value].exists
                /\ store[ev_call.hash_value].ots_status = ev_ret.result.ots_status
                /\ store[ev_call.hash_value].tsa_status = ev_ret.result.tsa_status
                /\ ev_ret.result.record = store[ev_call.hash_value]

\* a call that inserted the row of its hash and returned with one protocol
\* failed and the other disabled
C19_Witness ==
    /\ EvReturned("process")
    /\ ev_call.save_record
    /\ ~ev_call.store[ev_call.hash_value].exists
    /\ store[ev_call.hash_value].ots_status = "failed"
    /\ store[ev_call.hash_value].tsa_status = "disabled"

\* C20: process_submission returns disabled for a protocol only when the
\* call did not request it; a requested protocol comes back as success or
\* failed, as failed whenever its creation operation was called and reported
\* a failure, and as success only when the creation succeeded or the row
\* already held a success whose file is readable.
C20_DisabledOnlyWhenNotRequested ==
    EvReturned("process") =>
        /\ ev_ret.result.ots_status = "disabled" => ~ev_call.ots_enabled
        /\ ev_ret.result.tsa_status = "disabled" => ~ev_call.tsa_enabled
        /\ ev_call.ots_enabled => ev_ret.result.ots_status \in {"success", "failed"}
        /\ ev_call.tsa_enabled => ev_ret.result.tsa_status \in {"success", "failed"}
        /\ ("ots" \in ev_ret.created /\ ~CreatedOts.success)
              => ev_ret.result.ots_status = "failed"
        /\ ("tsa" \in ev_ret.created /\ ~CreatedTsa.success)
              => ev_ret.result.tsa_status = "failed"
        /\ (ev_call.ots_enabled /\ ev_ret.result.ots_status = "success")
              => \/ "ots" \in ev_ret.created /\ CreatedOts.success
                 \/ /\ ev_call.save_record
                    /\ ev_call.store[ev_call.hash_value].ots_status = "success"
        /\ (ev_call.tsa_enabled /\ ev_ret.result.tsa_status = "success")
              => \/ "tsa" \in ev_ret.created /\ CreatedTsa.success
                 \/ /\ ev_call.save_record
                    /\ ev_call.store[ev_call.hash_value].tsa_status = "success"

\* both protocols requested: every calendar fails and the authority answers
\* with bytes that do not decode
C20_Witness ==
    /\ EvReturned("process")
    /\ ev_call.ots_enabled
    /\ ev_call.tsa_enabled
    /\ ev_ret.created = {"ots", "tsa"}
    /\ ev_call.response = RespBytes(<<0>>)
    /\ ~CreatedOts.success
    /\ ev_ret.result.ots_status = "failed"
    /\ ev_ret.result.tsa_status = "failed"

\* the record of the digest of the call, as the call found it
RecordAtCall == ev_call.store[ev_call.hash_value]

\* the proof bytes a verify call handed to verify_ots
VerifiedOtsBytes ==
    OtsBytesToVerify(ev_call.store, ev_call.files, ev_call.hash_value,
                     ev_call.ots_bytes_override)

\* the Pending attestations of the proof a verify call read
PendingVerified ==
    IF DeserializeDetached(VerifiedOtsBytes).ok
    THEN CollectPendingAttestations(DeserializeDetached(VerifiedOtsBytes).timestamp)
    ELSE <<>>

\* a calendar answered an upgrade request of the call with a timestamp of
\* the message asked for
AnUpgradeSucceeded ==
    \E i \in 1..Len(ev_call.upgrades) :
        /\ ev_call.upgrades[i].kind = "ts"
        /\ ev_call.upgrades[i].ts.msg = PendingVerified[i].msg

\* C28: verify_submission writes a stored proof file only at the ots_path of
\* the record of the digest, and only the upgraded bytes of a proof whose
\* root message is that digest; a verification that ends with a hash
\* mismatch, with a proof that does not decode, or without an upgrade that
\* succeeded leaves every stored file as it was.
C28_OnlyUpgradedBytesOfTheDigest ==
    EvReturned("verify") =>
        /\ \A p \in EvPaths :
              files[p] # ev_call.files[p] =>
                 /\ RecordAtCall.exists
                 /\ p = RecordAtCall.ots_path
                 /\ ev_ret.ots.success
                 /\ AnUpgradeSucceeded
                 /\ files[p].content = ev_ret.ots.updated_ots_bytes
                 /\ DeserializeDetached(files[p].content).ok
                 /\ DeserializeDetached(files[p].content).timestamp.msg
                       = FromHex(ev_call.hash_value).val
        /\ (\/ ev_ret.ots.error = <<"hash mismatch">>
            \/ ~DeserializeDetached(VerifiedOtsBytes).ok
            \/ ~AnUpgradeSucceeded) => files = ev_call.files

\* the stored promise of a record is verified, the calendar answers with an
\* anchor, and the stored file now holds the upgraded proof
C28_Witness ==
    /\ EvReturned("verify")
    /\ RecordAtCall.exists
    /\ ev_call.ots_bytes_override = <<>>
    /\ AnUpgradeSucceeded
    /\ files[RecordAtCall.ots_path] # ev_call.files[RecordAtCall.ots_path]
    /\ files[RecordAtCall.ots_path].content = ev_ret.ots.updated_ots_bytes

\* C29 (as claimed): verify_submission changes a stored proof file only
\* when the bytes it verified were read from that file; verifying uploaded
\* bytes leaves the files of the record as they were.  Violated: line 177
\* tests the record and the updated bytes, not where the verified bytes
\* came from, so the upgrade of an uploaded proof is written over the
\* stored proof of the record.
C29_Claimed ==
    (EvReturned("verify") /\ ev_call.ots_bytes_override # <<>>) => files = ev_call.files

\* the record of the digest holds success for the protocol and the file at
\* its path holds bytes, as the call found them
StoredAndReadable(status, path) ==
    /\ RecordAtCall.exists
    /\ status = "success"
    /\ ReadFile(ev_call.files, path) # <<>>

\* C31: when the record holds success for a protocol and its file is
\* readable, process_submission with save_record makes no creation request
\* for the protocol and leaves its stored status, its path and its file as
\* they were, whether or not the call requests the protocol.
C31_StoredSuccessLeftAlone ==
    (EvReturned("process") /\ ev_call.save_record) =>
        /\ StoredAndReadable(RecordAtCall.ots_status, RecordAtCall.ots_path) =>
              /\ "ots" \notin ev_ret.created
              /\ ev_call.answers = <<>>
              /\ store[ev_call.hash_value].ots_status = "success"
              /\ store[ev_call.hash_value].ots_path = RecordAtCall.ots_path
              /\ files[RecordAtCall.ots_path] = ev_call.files[RecordAtCall.ots_path]
        /\ StoredAndReadable(RecordAtCall.tsa_status, RecordAtCall.tsa_path) =>
              /\ "tsa" \notin ev_ret.created
              /\ ev_call.response = RespNone
              /\ store[ev_call.hash_value].tsa_status = "success"
              /\ store[ev_call.hash_value].tsa_path = RecordAtCall.tsa_path
              /\ files[RecordAtCall.tsa_path] = ev_call.files[RecordAtCall.tsa_path]

\* a call that requests both protocols for a record whose proof is stored
\* and whose token failed: the proof is left alone, the token is created
C31_Witness ==
    /\ EvReturned("process")
    /\ ev_call.save_record
    /\ ev_call.ots_enabled
    /\ ev_call.tsa_enabled
    /\ StoredAndReadable(RecordAtCall.ots_status, RecordAtCall.ots_path)
    /\ RecordAtCall.tsa_status = "failed"
    /\ ev_ret.created = {"tsa"}
    /\ store[ev_call.hash_value].ots_status = "success"

\* the record of the digest holds success for the protocol and the file at
\* its path holds no bytes, as the call found them
StoredAndMissing(status, path) ==
    /\ RecordAtCall.exists
    /\ status = "success"
    /\ ReadFile(ev_call.files, path) = <<>>

\* C32: when process_submission with save_record returns, a stored success
\* of a protocol has a stored path and the file at that path holds bytes; a
\* stored success whose file is missing is not kept: the protocol is
\* created again when the call requests it, and is stored as disabled when
\* it does not.
C32_SuccessHasItsFile ==
    (EvReturned("process") /\ ev_call.save_record) =>
        LET after == store[ev_call.hash_value] IN
        /\ after.ots_status = "success" =>
              /\ after.ots_path # NoPath
              /\ ReadFile(files, after.ots_path) # <<>>
        /\ after.tsa_status = "success" =>
              /\ after.tsa_path # NoPath
              /\ ReadFile(files, after.tsa_path) # <<>>
        /\ StoredAndMissing(RecordAtCall.ots_status, RecordAtCall.ots_path) =>
              IF ev_call.ots_enabled
              THEN /\ "ots" \in ev_ret.created
                   /\ after.ots_status = StatusFromResult(CreatedOts.success)
              ELSE after.ots_status = "disabled"
        /\ StoredAndMissing(RecordAtCall.tsa_status, RecordAtCall.tsa_path) =>
              IF ev_call.tsa_enabled
              THEN /\ "tsa" \in ev_ret.created
                   /\ after.tsa_status = StatusFromResult(CreatedTsa.success)
              ELSE after.tsa_status = "disabled"

\* the proof file of a stored success is gone and the call does not request
\* the protocol: the stored status is no longer success
C32_Witness ==
    /\ EvReturned("process")
    /\ ev_call.save_record
    /\ ~ev_call.ots_enabled
    /\ StoredAndMissing(RecordAtCall.ots_status, RecordAtCall.ots_path)
    /\ store[ev_call.hash_value].ots_status = "disabled"

\* what the call would return over an empty table and an empty directory
ResultOverNothing ==
    ProcessSubmission(NoEvCall.store, NoEvCall.files, ev_call.hash_value,
                      ev_call.ots_enabled, ev_call.tsa_enabled, ev_call.save_record,
                      CreatedOts, CreatedTsa).result

\* C33: process_submission without save_record leaves the table and the
\* files as they were and returns what it would return over an empty table:
\* an empty record, saved false, and the bytes of each proof it created.
C33_InlineTouchesNothing ==
    (EvReturned("process") /\ ~ev_call.save_record) =>
        /\ store = ev_call.store
        /\ files = ev_call.files
        /\ ev_ret.result = ResultOverNothing
        /\ ev_ret.result.record = NoRecord
        /\ ~ev_ret.result.saved
        /\ ev_ret.result.ots_bytes
              = IF ev_call.ots_enabled /\ CreatedOts.success THEN CreatedOts.ots_bytes
                ELSE <<>>
        /\ ev_ret.result.tsa_bytes
              = IF ev_call.tsa_enabled /\ CreatedTsa.success THEN CreatedTsa.tsr_bytes
                ELSE <<>>

\* a record with a failed proof exists; a call without save_record creates
\* the proof, returns its bytes and leaves the record failed
C33_Witness ==
    /\ EvReturned("process")
    /\ ~ev_call.save_record
    /\ RecordAtCall.exists
    /\ RecordAtCall.ots_status = "failed"
    /\ ev_ret.result.ots_status = "success"
    /\ ev_ret.result.ots_bytes # <<>>
    /\ store[ev_call.hash_value] = RecordAtCall

\* C35: verify_submission inserts, updates and deletes no record: the table
\* after the call is the table before it, also when the verification ends
\* with a hash mismatch or with an upgrade, and the record the response
\* carries is the record as the call found it.
C35_VerifyLeavesTheRecord ==
    EvReturned("verify") =>
        /\ store = ev_call.store
        /\ ev_ret.response.exists = RecordAtCall.exists
        /\ ev_ret.response.record = RecordAtCall

\* the stored proof of a record is verified and upgraded: the file changes,
\* the record does not
C35_Witness ==
    /\ EvReturned("verify")
    /\ RecordAtCall.exists
    /\ AnUpgradeSucceeded
    /\ ev_ret.ots.success
    /\ files # ev_call.files
    /\ store[ev_call.hash_value] = RecordAtCall

\* the proof files of the digest of the call
FilesOfDigest == {p \in EvPaths : p.hash = ev_call.hash_value}

\* C37: delete_evidence returns false and changes neither the table nor a
\* file when the digest has no record; when it has one the record is
\* deleted and true returned, and the proof files of the digest are removed
\* exactly when keep_files is false.
C37_DeleteByRecord ==
    EvReturned("delete") =>
        IF ~RecordAtCall.exists
        THEN /\ ~ev_ret.deleted
             /\ store = ev_call.store
             /\ files = ev_call.files
        ELSE /\ ev_ret.deleted
             /\ ~store[ev_call.hash_value].exists
             /\ \A h \in EvHashes \ {ev_call.hash_value} : store[h] = ev_call.store[h]
             /\ \A p \in EvPaths \ FilesOfDigest : files[p] = ev_call.files[p]
             /\ IF ev_call.keep_files
                THEN files = ev_call.files
                ELSE \A p \in FilesOfDigest : ~files[p].exists

\* a record with a stored proof is deleted without keep_files: the record
\* and the file are gone
C37_Witness ==
    /\ EvReturned("delete")
    /\ RecordAtCall.exists
    /\ ~ev_call.keep_files
    /\ \E p \in FilesOfDigest : ev_call.files[p].exists
    /\ ev_ret.deleted
    /\ ~store[ev_call.hash_value].exists
    /\ \A p \in FilesOfDigest : ~files[p].exists

(***************************************************************************)
(* Properties of the four service functions together.                      *)
(***************************************************************************)
\* r is an OTSResult with all its fields, an error exactly when it is a
\* failure, and an info
OtsComplete(r) ==
    /\ DOMAIN r = {"success", "error", "info", "ots_bytes", "updated_ots_bytes"}
    /\ r.success \in BOOLEAN
    /\ r.success <=> r.error = NoError
    /\ DOMAIN r.info = DOMAIN NoInfo
    /\ r.success => r.ots_bytes # <<>> \/ ots_call.op = "verify"
    /\ ~r.success => r.ots_bytes = <<>> /\ r.updated_ots_bytes = <<>>

\* r is a TSAResult with all its fields, an error exactly when it is a
\* failure, and an info
TsaComplete(r) ==
    /\ DOMAIN r = {"success", "error", "info", "tsr_bytes"}
    /\ r.success \in BOOLEAN
    /\ r.success <=> r.error = NoError
    /\ \A kv \in r.info : Len(kv) = 2
    /\ ~r.success => r.tsr_bytes = <<>>

\* C21: whatever the input and whatever fails (the library import, the hex
\* digest, every calendar, the client's stamp or verification, the proof
\* bytes, every upgrade, every block-hash lookup, the authority, every
\* decoder), create_ots, verify_ots, create_tsa and verify_tsa hand their
\* caller a complete result: the success flag, an error exactly on failure,
\* and the info; no exception leaves them.
C21_AlwaysACompleteResult ==
    /\ ots_pc = "returned" => OtsComplete(ots_ret.result)
    /\ (tsa_pc = "returned" /\ tsa_call.op \in {"create", "verify"})
          => TsaComplete(tsa_ret.result)

\* every calendar of a list of three fails, and the caller still gets a
\* complete failure result
C21_Witness ==
    /\ Aggregated
    /\ Len(ots_call.calendars) = 3
    /\ SucceededCount = 0
    /\ OtsComplete(ots_ret.result)
    /\ ~ots_ret.result.success


(***************************************************************************)
(* Properties of the session module.                                       *)
(***************************************************************************)
SessReturned(op) == sess_ret.op = op

\* the session the token of the last call named before the call
SessionRead == sess_ret.before[sess_ret.token]

\* C26: get_session tests the expiry on every read: it never returns a
\* session whose expiry time has passed, it removes such a session from the
\* map on that read, and it returns a session that has not expired, with
\* the user the token was issued to.
C26_ExpiryCheckedOnRead ==
    (SessReturned("get") /\ sess_ret.token # NoSessionToken /\ SessionRead.exists) =>
        /\ sess_ret.result.exists => sess_ret.result.expires_at >= sess_ret.at
        /\ SessionRead.expires_at < sess_ret.at =>
              /\ ~sess_ret.result.exists
              /\ ~sessions[sess_ret.token].exists
        /\ SessionRead.expires_at >= sess_ret.at =>
              /\ sess_ret.result = SessionRead
              /\ sess_ret.result.user = issued[sess_ret.token]
              /\ sessions = sess_ret.before

\* a read of a session after its expiry: nothing returned, the entry gone
C26_Witness ==
    /\ SessReturned("get")
    /\ sess_ret.token # NoSessionToken
    /\ SessionRead.exists
    /\ SessionRead.expires_at < sess_ret.at
    /\ ~sess_ret.result.exists
    /\ ~sessions[sess_ret.token].exists


(***************************************************************************)
(* Properties of process_submission calls that run at the same time.       *)
(***************************************************************************)
BothReturned == \A c \in Callers : calls[c].pc = "returned"

\* C30 (as claimed): when two process_submission calls with save_record for
\* one digest interleave, a protocol whose creation succeeded in either
\* call ends with the stored status success and the path of its saved file.
\* Violated: update_statuses writes the statuses and paths the call holds
\* in its local variables, whatever the row holds by then, so the call that
\* failed or did not request the protocol, updating last, overwrites the
\* success and the path the other call wrote.
C30_Claimed ==
    BothReturned =>
        /\ (\E c \in Callers : calls[c].ots_created) =>
              /\ store[RaceHash].ots_status = "success"
              /\ store[RaceHash].ots_path = PathOf(RaceHash, "ots")
        /\ (\E c \in Callers : calls[c].tsa_created) =>
              /\ store[RaceHash].tsa_status = "success"
              /\ store[RaceHash].tsa_path = PathOf(RaceHash, "tsr")


(***************************************************************************)
(* Properties of the routes.                                               *)
(***************************************************************************)
\* the cookie of the request named a session that existed and had not
\* expired when the request came
CookieValid ==
    /\ ev_call.cookie \in Tokens
    /\ ev_call.sessions[ev_call.cookie].exists
    /\ ~(ev_call.sessions[ev_call.cookie].expires_at < ev_call.at)

UploadSaving == ev_call.save_option # "Disable"

UploadBothDisabled == ev_call.ots_option = "Disable" /\ ev_call.tsa_option = "Disable"

\* the request inserted no record, wrote no file and asked for no proof
UploadTouchedNothing ==
    /\ store = ev_call.store
    /\ files = ev_call.files
    /\ ev_ret.http.created = {}

\* C34 as stated: an upload that asks to save without a valid session is
\* answered 403, and an upload with both protocols disabled is answered 400,
\* each before anything is inserted, written or requested.
C34_Claimed ==
    EvReturned("upload") =>
        /\ (UploadSaving /\ ~CookieValid) =>
              (ev_ret.http.status = 403 /\ UploadTouchedNothing)
        /\ UploadBothDisabled =>
              (ev_ret.http.status = 400 /\ UploadTouchedNothing)

\* C34: upload_evidence tests the digest, then the session, then the
\* options.  A request without a digest is answered 400; with a digest, one
\* that asks to save without a valid session is answered 403; with a digest
\* and past the session test, one with both protocols disabled is answered
\* 400.  Every such answer comes before any record is inserted, any proof
\* file is written and any creation request is issued, and only these
\* requests are turned away.
C34_UploadRejections ==
    EvReturned("upload") =>
        /\ ev_call.hash_value = <<>> =>
              (ev_ret.http.status = 400 /\ ev_ret.http.detail = "hash is required")
        /\ (ev_call.hash_value # <<>> /\ UploadSaving /\ ~CookieValid) =>
              (ev_ret.http.status = 403 /\ ev_ret.http.detail = "login required to save")
        /\ (ev_call.hash_value # <<>> /\ ~(UploadSaving /\ ~CookieValid)
              /\ UploadBothDisabled) =>
              (ev_ret.http.status = 400
                 /\ ev_ret.http.detail = "at least one option required")
        /\ (ev_call.hash_value # <<>> /\ ~(UploadSaving /\ ~CookieValid)
              /\ ~UploadBothDisabled) => ev_ret.http.status = 200
        /\ ev_ret.http.status # 200 => UploadTouchedNothing

\* an upload with both protocols disabled that asks to save under a session
\* that has expired is answered 403
C34_Witness ==
    /\ EvReturned("upload")
    /\ ev_call.hash_value # <<>>
    /\ UploadSaving
    /\ UploadBothDisabled
    /\ ev_call.cookie \in Tokens
    /\ ev_call.sessions[ev_call.cookie].exists
    /\ ev_call.sessions[ev_call.cookie].expires_at < ev_call.at
    /\ ev_ret.http.status = 403
    /\ ev_call.store[ev_call.hash_value].exists


\* the record the download met, and its status and path for the protocol
DownloadRecord == ev_call.store[ev_call.hash_value]

DownloadStatus ==
    IF ev_call.protocol = "ots" THEN DownloadRecord.ots_status
    ELSE DownloadRecord.tsa_status

DownloadPath ==
    IF ev_call.protocol = "ots" THEN DownloadRecord.ots_path ELSE DownloadRecord.tsa_path

DownloadFileThere == DownloadPath # NoPath /\ ev_call.files[DownloadPath].exists

\* C36: a download route sends a proof file only when the digest has a
\* record, the record's status for the protocol is success and the file at
\* the stored path exists, and then it sends that file; without a record it
\* answers 404, with a status other than success 403, without the file 404,
\* and none of these answers carries proof content.
C36_DownloadOnlyStoredSuccess ==
    EvReturned("download") =>
        /\ ev_ret.http.status = 200 <=>
              (DownloadRecord.exists /\ DownloadStatus = "success" /\ DownloadFileThere)
        /\ ev_ret.http.status = 200 =>
              ev_ret.http.content = ev_call.files[DownloadPath].content
        /\ ~DownloadRecord.exists => ev_ret.http.status = 404
        /\ (DownloadRecord.exists /\ DownloadStatus # "success") =>
              ev_ret.http.status = 403
        /\ (DownloadRecord.exists /\ DownloadStatus = "success" /\ ~DownloadFileThere) =>
              ev_ret.http.status = 404
        /\ ev_ret.http.status # 200 => ev_ret.http.content = <<>>
        /\ store = ev_call.store
        /\ files = ev_call.files

\* a download of a stored token whose file is gone from the directory is
\* answered 404 while the record still says success
C36_Witness ==
    /\ EvReturned("download")
    /\ ev_call.protocol = "tsa"
    /\ DownloadRecord.exists
    /\ DownloadStatus = "success"
    /\ DownloadPath # NoPath
    /\ ~ev_call.files[DownloadPath].exists
    /\ ev_ret.http.status = 404

\* a download that sends the stored proof
C36_Sent ==
    /\ EvReturned("download")
    /\ ev_ret.http.status = 200
    /\ ev_ret.http.content # <<>>

\* a download refused for a record whose status is not success
C36_Refused ==
    /\ EvReturned("download")
    /\ ev_ret.http.status = 403


\* this step is a login that draws the token t for its new session
LoginDraws(t) ==
    /\ ev_pc = "idle"
    /\ ev_call'.op = "login"
    /\ ev_call'.cookie = t
    /\ ev_ret'.http.status = 200

\* a token without an entry in the map has no session and is turned away
NoEntryNoSession(t) ==
    ~sessions[t].exists =>
        /\ ~GetSession(sessions, t, now).result.exists
        /\ GetSession(sessions, t, now).sessions = sessions
        /\ RequireLogin(sessions, t, now).response.status = 403

\* the logout that has just returned removed the entry of its cookie
LogoutRemoved(t) ==
    (EvReturned("logout") /\ ev_call.cookie = t) => ~sessions[t].exists

\* the guarded request that has just returned was answered 403 unless its
\* cookie named an entry of the map
GuardRejected ==
    (EvReturned("get_evidence")
        /\ (ev_call.cookie \notin Tokens \/ ~ev_call.sessions[ev_call.cookie].exists))
    => ev_ret.http.status = 403

\* C38: when logout returns, the token has no entry in the session map; a
\* token without an entry has none in the next state either unless that
\* step is a login that draws this very token, whatever logins, logouts,
\* guarded requests and clock steps for other tokens come between; and a
\* token without an entry gets no session from get_session and 403 from
\* every route behind require_login.
C38_LoggedOutStaysOut ==
    /\ [](\A t \in Tokens : LogoutRemoved(t) /\ NoEntryNoSession(t))
    /\ []GuardRejected
    /\ [][\A t \in Tokens :
             (~sessions[t].exists /\ ~LoginDraws(t)) => ~sessions'[t].exists]_vars

\* before anything can expire, a token that was logged in and out again is
\* answered 403 by a guarded route while the other token's session lives
C38_Witness ==
    /\ EvReturned("get_evidence")
    /\ now = 0
    /\ ev_call.cookie = "t1"
    /\ issued["t1"] = BasicAuthUser
    /\ ~sessions["t1"].exists
    /\ sessions["t2"].exists
    /\ ev_ret.http.status = 403

====
